---- MODULE Spec2Model ----
(***************************************************************************)
(* MultiPlanarUNet tooling: the cross-validation split script              *)
(* (bin/cv_split.py), the YAML hyper-parameter store (train/hparams.py),   *)
(* the callback factory (callbacks/funcs.py), the fit loop with its        *)
(* out-of-memory recovery (train/trainer.py) and the image pair loader     *)
(* (image/image_pair_loader.py), both when it is constructed and when it   *)
(* is used (set_queue, get_random, get_sequencer).                         *)
(*                                                                         *)
(* Each component has its own variables and its own specification          *)
(* (SpecCV, SpecFit, SpecLoader, SpecCB, SpecHP, SpecUse and, with the     *)
(* fairness of a running loop, SpecUseFair); a component's                 *)
(* specification leaves the variables of the other components at their     *)
(* idle values.  Text (file contents, paths) is a sequence of              *)
(* one-character strings, so that the string surgery of the code is        *)
(* computed the way Python computes it.                                    *)
(***************************************************************************)
EXTENDS Integers, Sequences, FiniteSets, TLC

VARIABLES
    \* ---- bin/cv_split.py: entry_func
    cv_pc,        \* "start", "shuffle", "loop", "done", "raised"
    cv_args,      \* the parsed command line: [CV, val_frac, test_frac]
    cv_images,    \* the list `images` (glob result, then shuffled in place)
    cv_labels,    \* the file names that exist under the label directory
    cv_sizes,     \* [N_total, N_test, N_val, N_train] as printed
    cv_splits,    \* the list `splits`
    cv_i,         \* the loop index i of `for i, split in enumerate(splits)`
    cv_folds,     \* folds completed: the entries of test/, val/ and train/
    cv_partial,   \* the entries of the fold that add_images aborted, and
                  \* the lists add_images was given for it
    cv_err,       \* the exception that ended the run, or "none"
    \* ---- train/trainer.py: Trainer.fit
    fit_pc,         \* "loop" (the while test), "attempt" (inside _fit_loop),
                    \* "stopped" (fit returned), "raised"
    fit_batch_size, \* the local batch_size of fit
    fit_fitting,    \* the local flag `fitting`
    fit_has_val,    \* val is a non-empty sequence
    fit_train_bs,   \* train.batch_size
    fit_val_bs,     \* val.batch_size
    fit_hparams_bs, \* hparams["fit"]["batch_size"]
    fit_callbacks,  \* the list `callbacks` the caller of fit holds
    fit_no_im,      \* no_im
    fit_attempts,   \* the calls of _fit_loop so far, each with its outcome
    \* ---- image/image_pair_loader.py: ImagePairLoader
    ldr_pc,          \* "new", "paths", "labels", "objects", "ready", "raised"
    ldr_cfg,         \* __init__ arguments: data_dir (absolute), img_subdir,
                     \* label_subdir, predict_mode, single_file_mode
    ldr_fs,          \* the disk: the image files in images_path and
                     \* the paths listed in LIST_OF_FILES.txt, if it exists
    ldr_image_paths, \* self.image_paths
    ldr_label_paths, \* self.label_paths
    ldr_images,      \* self.images: the ImagePairs
    ldr_err,         \* the exception __init__ raised, or "none"
    \* ---- callbacks/funcs.py: init_callback_objects
    cb_pc,      \* "loop", "returned", "raised"
    cb_input,   \* the argument `callbacks`
    cb_i,       \* entries of `callbacks` handled so far
    cb_objs,    \* the list cb_objs
    cb_dict,    \* the dict cb_dict: class name -> callback
    cb_err,     \* the exception raised, or "none"
    \* ---- train/hparams.py: YAMLHParams
    hp_pc,         \* "new", "loaded", "raised"
    hp_file,       \* the text of the file at yaml_path when it is read
    hp_string_rep, \* self.string_rep
    hp_dict,       \* the dict itself: group name -> value
    hp_calls,      \* mutating calls made since the object was built
    hp_last,       \* the last call: its arguments, the state before it and
                   \* how it ended
    hp_written,    \* what save_current wrote last, or None
    \* ---- image/image_pair_loader.py: a loader in use (set_queue,
    \* get_sequencer, get_random)
    lu_pc,       \* "ready"; in get_random: "loop" (the while test), "checked"
                 \* (inside `with self.queue.get()`), "yielded" (the
                 \* generator is suspended at yield), "done"; in
                 \* get_sequencer: "seq"; "raised"
    lu_n,        \* len(self): the images are 1..lu_n
    lu_queue,    \* self.queue: False or the ImageQueue
    lu_setq,     \* the last set_queue call: max_load and the queue before it
    lu_sets,     \* set_queue calls made
    lu_N,        \* get_random: the argument N
    lu_unique,   \* get_random: the argument unique
    lu_returned, \* get_random: the list `returned`
    lu_held,     \* get_random: the image checked out of the queue, 0 if none
    lu_style,    \* get_sequencer: intrp_style
    lu_todo,     \* get_sequencer: the calls still to make
    lu_events,   \* get_sequencer: the calls made, in order
    lu_err       \* the exception raised, or "none"

cvVars == <<cv_pc, cv_args, cv_images, cv_labels, cv_sizes, cv_splits, cv_i,
            cv_folds, cv_partial, cv_err>>

fitVars == <<fit_pc, fit_batch_size, fit_fitting, fit_has_val, fit_train_bs,
             fit_val_bs, fit_hparams_bs, fit_callbacks, fit_no_im, fit_attempts>>

ldrVars == <<ldr_pc, ldr_cfg, ldr_fs, ldr_image_paths, ldr_label_paths,
             ldr_images, ldr_err>>

cbVars == <<cb_pc, cb_input, cb_i, cb_objs, cb_dict, cb_err>>

hpVars == <<hp_pc, hp_file, hp_string_rep, hp_dict, hp_calls, hp_last, hp_written>>

luVars == <<lu_pc, lu_n, lu_queue, lu_setq, lu_sets, lu_N, lu_unique, lu_returned,
            lu_held, lu_style, lu_todo, lu_events, lu_err>>

vars == <<cvVars, fitVars, ldrVars, cbVars, hpVars, luVars>>

\* what a step of one component leaves alone: the other components
CVFrame == UNCHANGED <<fitVars, ldrVars, cbVars, hpVars, luVars>>
FitFrame == UNCHANGED <<cvVars, ldrVars, cbVars, hpVars, luVars>>
LdrFrame == UNCHANGED <<cvVars, fitVars, cbVars, hpVars, luVars>>
CBFrame == UNCHANGED <<cvVars, fitVars, ldrVars, hpVars, luVars>>
HPFrame == UNCHANGED <<cvVars, fitVars, ldrVars, cbVars, luVars>>
LUFrame == UNCHANGED <<cvVars, fitVars, ldrVars, cbVars, hpVars>>

(***************************************************************************)
(* Bounds of the model.                                                    *)
(***************************************************************************)
MaxImages == 4       \* at most this many image files in the data directory
MaxCV == 3           \* --CV ranges over 1..MaxCV
MaxBatch == 7        \* fit is called with batch_size in 1..MaxBatch
MaxCallbacks == 2    \* init_callback_objects is given at most this many entries
MaxUserCallbacks == 2 \* fit is given at most this many callbacks
MaxCalls == 2        \* mutating calls made on one YAMLHParams object
MaxLoaded == 2       \* a loader in use holds at most this many images
MaxN == 3            \* get_random is asked for at most this many images
MaxSetQueue == 2     \* set_queue is called at most this many times

(***************************************************************************)
(* Python helpers on sequences.                                            *)
(***************************************************************************)
Min(a, b) == IF a < b THEN a ELSE b
Max(a, b) == IF a > b THEN a ELSE b

\* int(x) of a float x = num/den (den > 0): truncation towards zero
PyInt(num, den) == IF num >= 0 THEN num \div den ELSE -((-num) \div den)

\* the index a slice bound k denotes in a list of length n (Python clamps)
SliceIndex(k, n) == IF k < 0 THEN Max(n + k, 0) ELSE Min(k, n)

\* s[:k]
PyHead(s, k) == SubSeq(s, 1, SliceIndex(k, Len(s)))

\* s[k:]
PyTail(s, k) == SubSeq(s, SliceIndex(k, Len(s)) + 1, Len(s))

Range(s) == {s[k] : k \in 1..Len(s)}

RECURSIVE Flatten(_)
Flatten(ss) == IF ss = <<>> THEN <<>> ELSE Head(ss) \o Flatten(Tail(ss))

\* every order random.shuffle can leave the list in
Shuffles(s) == {[k \in 1..Len(s) |-> s[p[k]]] : p \in Permutations(1..Len(s))}

(***************************************************************************)
(* Python str methods, on text as a sequence of characters.                *)
(***************************************************************************)

\* t occurs in s at index i (1-based)
MatchAt(s, t, i) ==
    /\ i >= 1
    /\ i + Len(t) - 1 <= Len(s)
    /\ SubSeq(s, i, i + Len(t) - 1) = t

\* s.find(t, from): the first index >= from at which t occurs, 0 when none
FindFrom(s, t, from) ==
    LET hits == {i \in from..(Len(s) - Len(t) + 1) : MatchAt(s, t, i)}
    IN IF hits = {} THEN 0 ELSE CHOOSE i \in hits : \A j \in hits : i <= j

\* t in s
Contains(s, t) == FindFrom(s, t, 1) # 0

RECURSIVE Interleave(_, _)
Interleave(s, new) ==
    IF s = <<>> THEN new ELSE new \o <<Head(s)>> \o Interleave(Tail(s), new)

RECURSIVE ReplaceFound(_, _, _)
ReplaceFound(s, old, new) ==
    LET i == FindFrom(s, old, 1)
    IN IF i = 0 THEN s
       ELSE SubSeq(s, 1, i - 1) \o new
            \o ReplaceFound(SubSeq(s, i + Len(old), Len(s)), old, new)

\* s.replace(old, new): every non-overlapping occurrence, left to right; an
\* empty `old` matches before every character and at the end
Replace(s, old, new) ==
    IF old = <<>> THEN Interleave(s, new) ELSE ReplaceFound(s, old, new)

RECURSIVE Split(_, _)
\* s.split(c) for a one-character separator
Split(s, c) ==
    LET i == FindFrom(s, <<c>>, 1)
    IN IF i = 0 THEN <<s>>
       ELSE <<SubSeq(s, 1, i - 1)>> \o Split(SubSeq(s, i + 1, Len(s)), c)

RECURSIVE Join(_, _)
\* c.join(parts)
Join(parts, c) ==
    IF Len(parts) = 0 THEN <<>>
    ELSE IF Len(parts) = 1 THEN parts[1]
    ELSE parts[1] \o <<c>> \o Join(Tail(parts), c)

\* the order of characters (code points), for sorted()
CharOrder == <<"\n", " ", "#", ".", "/", "0", "1", "2", "3", ":", "B", "C",
               "F", "N", "_", "a", "b", "c", "d", "e", "f", "g", "i", "l", "m",
               "n", "o", "s", "x", "~">>
CharRank(c) == CHOOSE k \in 1..Len(CharOrder) : CharOrder[k] = c

RECURSIVE StrLess(_, _)
\* a < b for str
StrLess(a, b) ==
    IF b = <<>> THEN FALSE
    ELSE IF a = <<>> THEN TRUE
    ELSE IF Head(a) # Head(b) THEN CharRank(Head(a)) < CharRank(Head(b))
    ELSE StrLess(Tail(a), Tail(b))

RECURSIVE Sorted(_)
\* sorted(S) for a set of str
Sorted(S) ==
    IF S = {} THEN <<>>
    ELSE LET least == CHOOSE a \in S : \A b \in S \ {a} : StrLess(a, b)
         IN <<least>> \o Sorted(S \ {least})

\* None, and a value that is not None
NoneVal == [none |-> TRUE]
Some(v) == [v |-> v]

(***************************************************************************)
(* bin/cv_split.py                                                         *)
(***************************************************************************)

\* the float values given to --validation_fraction / --test_fraction, as
\* <<numerator, denominator>>; all are exact binary fractions, so that
\* N_total * fraction is computed without rounding
Fractions == {<<-1, 4>>, <<0, 1>>, <<1, 4>>, <<1, 2>>, <<1, 1>>}

\* int(N_total * frac)
FracOf(n, frac) == PyInt(n * frac[1], frac[2])

\* np.array_split(images, n): n consecutive parts, the first len % n of
\* them one element longer than the others
ArraySplitStart(len, n, k) == (k - 1) * (len \div n) + Min(k - 1, len % n)
ArraySplit(s, n) ==
    [k \in 1..n |-> SubSeq(s, ArraySplitStart(Len(s), n, k) + 1,
                              ArraySplitStart(Len(s), n, k + 1))]

\* lines 174-184: the sizes announced
NTest(n_total, args) ==
    IF args.CV > 1 THEN n_total \div args.CV ELSE FracOf(n_total, args.test_frac)
NVal(n_total, args) == FracOf(n_total, args.val_frac)

\* line 181, with the mistake of accepting a split that leaves no image
TooLargeStrict(n_val, n_test, n_total) == n_val + n_test > n_total

\* line 181: no training samples are left
TooLarge(n_val, n_test, n_total) == n_val + n_test >= n_total

\* lines 249-250, with the mistake of not leaving split i out
RemainingAll(splits, i) == Flatten(splits)

\* lines 249-250: the splits other than split i (0-based), joined
Remaining(splits, i) ==
    Flatten([k \in 1..(Len(splits) - 1) |-> splits[IF k < i + 1 THEN k ELSE k + 1]])

\* add_images, lines 78-99: the images are linked one by one, in order; the
\* first image with no same-named label raises OSError.  The result is the
\* set of entries made and whether the call raised.
\* lines 80-99, with the mistake of raising only after the loop, for the
\* last image without a label
AddImagesRaiseLate(images, labels) ==
    LET bad == {k \in 1..Len(images) : images[k] \notin labels}
    IN [entries |-> {[image |-> images[k], label |-> images[k]] :
                        k \in 1..Len(images) \ bad},
        raised |-> bad # {}]

AddImages(images, labels) ==
    LET bad == {k \in 1..Len(images) : images[k] \notin labels}
        stop == IF bad = {} THEN Len(images) + 1
                ELSE CHOOSE k \in bad : \A j \in bad : k <= j
    IN [entries |-> {[image |-> images[k], label |-> images[k]] : k \in 1..(stop - 1)},
        raised |-> bad # {}]

NoFold == [test |-> {}, val |-> {}, train |-> {}, given |-> <<>>]

CVInit ==
    /\ cv_pc = "start"
    /\ cv_args \in [CV : 1..MaxCV, val_frac : Fractions, test_frac : Fractions]
    /\ \E n \in 0..MaxImages : cv_images = [k \in 1..n |-> k]
    /\ \E missing \in SUBSET Range(cv_images) :
          /\ Cardinality(missing) <= 1
          /\ cv_labels = Range(cv_images) \ missing
    /\ cv_sizes = [N_total |-> 0, N_test |-> 0, N_val |-> 0, N_train |-> 0]
    /\ cv_splits = <<>>
    /\ cv_i = 0
    /\ cv_folds = <<>>
    /\ cv_partial = NoFold
    /\ cv_err = "none"

CVIdle ==
    /\ cv_pc = "idle"
    /\ cv_args = [CV |-> 1, val_frac |-> <<0, 1>>, test_frac |-> <<0, 1>>]
    /\ cv_images = <<>>
    /\ cv_labels = {}
    /\ cv_sizes = [N_total |-> 0, N_test |-> 0, N_val |-> 0, N_train |-> 0]
    /\ cv_splits = <<>>
    /\ cv_i = 0
    /\ cv_folds = <<>>
    /\ cv_partial = NoFold
    /\ cv_err = "none"

\* lines 152-153: --CV=1 needs a test fraction
CVRejectArgs ==
    /\ cv_pc = "start"
    /\ cv_args.CV = 1 /\ cv_args.test_frac[1] = 0
    /\ cv_pc' = "raised"
    /\ cv_err' = "ValueError: Must specify --test_fraction"
    /\ UNCHANGED <<cv_args, cv_images, cv_labels, cv_sizes, cv_splits, cv_i,
                   cv_folds, cv_partial>>
    /\ CVFrame

\* lines 174-189: the sizes, and the check that training samples are left
CVSizes ==
    /\ cv_pc = "start"
    /\ ~(cv_args.CV = 1 /\ cv_args.test_frac[1] = 0)
    /\ LET n_total == Len(cv_images)
           n_test == NTest(n_total, cv_args)
           n_val == NVal(n_total, cv_args)
       IN IF TooLarge(n_val, n_test, n_total)
          THEN /\ cv_pc' = "raised"
               /\ cv_err' = "ValueError: No training samples left"
               /\ UNCHANGED cv_sizes
          ELSE /\ cv_pc' = "shuffle"
               /\ cv_sizes' = [N_total |-> n_total, N_test |-> n_test,
                               N_val |-> n_val,
                               N_train |-> n_total - n_test - n_val]
               /\ UNCHANGED cv_err
    /\ UNCHANGED <<cv_args, cv_images, cv_labels, cv_splits, cv_i, cv_folds,
                   cv_partial>>
    /\ CVFrame

\* lines 191-193: shuffle, then split into CV parts
CVShuffle ==
    /\ cv_pc = "shuffle"
    /\ \E shuffled \in Shuffles(cv_images) :
          /\ cv_images' = shuffled
          /\ cv_splits' = ArraySplit(shuffled, cv_args.CV)
    /\ cv_i' = 0
    /\ cv_pc' = "loop"
    /\ UNCHANGED <<cv_args, cv_labels, cv_sizes, cv_folds, cv_partial, cv_err>>
    /\ CVFrame

\* lines 196-259: one pass of the loop over the splits.  With CV = 1 the
\* only split is cut into the test part and the rest (lines 207-212).
CVFold ==
    /\ cv_pc = "loop"
    /\ cv_i < cv_args.CV
    /\ LET split == IF cv_args.CV > 1 THEN cv_splits[cv_i + 1]
                    ELSE PyHead(cv_splits[1], cv_sizes.N_test)
           splits == IF cv_args.CV > 1 THEN cv_splits
                     ELSE <<split, PyTail(cv_splits[1], cv_sizes.N_test)>>
           test == AddImages(split, cv_labels)
       IN /\ cv_splits' = splits
          /\ \E remaining \in Shuffles(Remaining(splits, cv_i)) :
                LET val == AddImages(PyHead(remaining, cv_sizes.N_val), cv_labels)
                    train == AddImages(PyTail(remaining, cv_sizes.N_val), cv_labels)
                IN IF test.raised \/ val.raised \/ train.raised
                   THEN /\ cv_partial' =
                              [test |-> test.entries,
                               val |-> IF test.raised THEN {} ELSE val.entries,
                               train |-> IF test.raised \/ val.raised THEN {}
                                         ELSE train.entries,
                               given |-> IF test.raised THEN <<split>>
                                         ELSE <<split,
                                                PyHead(remaining, cv_sizes.N_val),
                                                PyTail(remaining, cv_sizes.N_val)>>]
                        /\ cv_pc' = "raised"
                        /\ cv_err' = "OSError: No label file found"
                        /\ UNCHANGED <<cv_folds, cv_i>>
                   ELSE /\ cv_folds' = Append(cv_folds,
                              [test |-> test.entries, val |-> val.entries,
                               train |-> train.entries])
                        /\ cv_i' = cv_i + 1
                        /\ cv_pc' = IF cv_i + 1 = cv_args.CV THEN "done" ELSE "loop"
                        /\ UNCHANGED <<cv_partial, cv_err>>
    /\ UNCHANGED <<cv_args, cv_images, cv_labels, cv_sizes>>
    /\ CVFrame

CVNext == CVRejectArgs \/ CVSizes \/ CVShuffle \/ CVFold

(***************************************************************************)
(* image/image_pair_loader.py: ImagePairLoader.__init__                    *)
(***************************************************************************)

\* directory and file names (a and b stand for two .nii files)
ImSub == <<"i", "m">>
LabSub == <<"l", "b">>
DataDirs == {<<"/", "d">>, <<"/", "i", "m", "/", "d">>}
NiiNames == {<<"a">>, <<"b">>}

\* lines written in a LIST_OF_FILES.txt (made by cv_split --file_list, or
\* by hand): /d/im/a, /d/im/b, /d/xim/a and /d/c/a
ListedPaths == {<<"/", "d", "/", "i", "m", "/", "a">>,
                <<"/", "d", "/", "i", "m", "/", "b">>,
                <<"/", "d", "/", "x", "i", "m", "/", "a">>,
                <<"/", "d", "/", "c", "/", "a">>}
ListFiles == {<<>>} \cup {<<p>> : p \in ListedPaths}
              \cup {<<p, q>> : p \in ListedPaths, q \in ListedPaths}

\* os.path.join(a, b) for a relative b
PathJoin(a, b) == a \o <<"/">> \o b

\* lines 218-230: the images found by glob, sorted, else the listed paths
GlobImages(cfg, fs) ==
    Sorted({PathJoin(PathJoin(cfg.data_dir, cfg.img_subdir), n) : n \in fs.files})

\* line 245: some path does not hold img_subdir
SubdirMismatch(paths, img_subdir) ==
    \E k \in 1..Len(paths) : ~Contains(paths[k], img_subdir)

\* line 251: "/img_subdir/" replaced by "/label_subdir/" in every path
LabelPath(path, img_subdir, label_subdir) ==
    Replace(path, <<"/">> \o img_subdir \o <<"/">>,
                  <<"/">> \o label_subdir \o <<"/">>)

\* ImagePair(img_path, label_path, sample_weight=...): paths only, nothing
\* is loaded
ImagePair(img_path, label_path) == [image_path |-> img_path, labels_path |-> label_path]

LdrInit ==
    /\ ldr_pc = "new"
    /\ ldr_cfg \in [data_dir : DataDirs, img_subdir : {ImSub},
                     label_subdir : {LabSub}, predict_mode : BOOLEAN,
                     single_file_mode : BOOLEAN]
    /\ ldr_fs \in [files : SUBSET NiiNames,
                    list_file : {NoneVal} \cup {Some(l) : l \in ListFiles}]
    /\ ldr_image_paths = NoneVal
    /\ ldr_label_paths = NoneVal
    /\ ldr_images = <<>>
    /\ ldr_err = "none"

LdrIdle ==
    /\ ldr_pc = "idle"
    /\ ldr_cfg = [data_dir |-> <<"/", "d">>, img_subdir |-> ImSub,
                  label_subdir |-> LabSub, predict_mode |-> FALSE,
                  single_file_mode |-> TRUE]
    /\ ldr_fs = [files |-> {}, list_file |-> NoneVal]
    /\ ldr_image_paths = NoneVal
    /\ ldr_label_paths = NoneVal
    /\ ldr_images = <<>>
    /\ ldr_err = "none"

\* lines 74-76, 87-88 and 218-230: get_image_paths, or no images at all in
\* single file mode
LdrGetImagePaths ==
    /\ ldr_pc = "new"
    /\ IF ldr_cfg.single_file_mode
       THEN /\ ldr_pc' = "ready"
            /\ UNCHANGED <<ldr_image_paths, ldr_err>>
       ELSE LET found == GlobImages(ldr_cfg, ldr_fs)
            IN IF found # <<>>
               THEN /\ ldr_image_paths' = Some(found)
                    /\ ldr_pc' = "paths"
                    /\ UNCHANGED ldr_err
               ELSE IF ldr_fs.list_file = NoneVal
               THEN /\ ldr_pc' = "raised"
                    /\ ldr_err' = "OSError: list file does not exist"
                    /\ UNCHANGED ldr_image_paths
               ELSE /\ ldr_image_paths' = Some(ldr_fs.list_file.v)
                    /\ ldr_pc' = "paths"
                    /\ UNCHANGED ldr_err
    /\ UNCHANGED <<ldr_cfg, ldr_fs, ldr_label_paths, ldr_images>>
    /\ LdrFrame

\* lines 78-83 and 232-251: get_label_paths, unless in predict mode
LdrGetLabelPaths ==
    /\ ldr_pc = "paths"
    /\ IF ldr_cfg.predict_mode
       THEN /\ ldr_label_paths' = NoneVal
            /\ ldr_pc' = "labels"
            /\ UNCHANGED ldr_err
       ELSE IF SubdirMismatch(ldr_image_paths.v, ldr_cfg.img_subdir)
       THEN /\ ldr_pc' = "raised"
            /\ ldr_err' = "ValueError: img_subdir not found in image paths"
            /\ UNCHANGED ldr_label_paths
       ELSE /\ ldr_label_paths' = Some(
                  [k \in 1..Len(ldr_image_paths.v) |->
                      LabelPath(ldr_image_paths.v[k], ldr_cfg.img_subdir,
                                ldr_cfg.label_subdir)])
            /\ ldr_pc' = "labels"
            /\ UNCHANGED ldr_err
    /\ UNCHANGED <<ldr_cfg, ldr_fs, ldr_image_paths, ldr_images>>
    /\ LdrFrame

\* lines 85-86 and 253-278: get_image_objects
LdrGetImageObjects ==
    /\ ldr_pc = "labels"
    /\ ldr_images' =
          IF ldr_cfg.predict_mode
          THEN [k \in 1..Len(ldr_image_paths.v) |->
                   ImagePair(ldr_image_paths.v[k], NoneVal)]
          ELSE [k \in 1..Min(Len(ldr_image_paths.v), Len(ldr_label_paths.v)) |->
                   ImagePair(ldr_image_paths.v[k], Some(ldr_label_paths.v[k]))]
    /\ ldr_pc' = "objects"
    /\ UNCHANGED <<ldr_cfg, ldr_fs, ldr_image_paths, ldr_label_paths, ldr_err>>
    /\ LdrFrame

\* lines 90-99: an empty list of images or labels is an error
LdrFinish ==
    /\ ldr_pc = "objects"
    /\ IF ldr_image_paths.v = <<>>
       THEN /\ ldr_pc' = "raised"
            /\ ldr_err' = "OSError: No image files found"
       ELSE IF ~ldr_cfg.predict_mode /\ ldr_label_paths.v = <<>>
       THEN /\ ldr_pc' = "raised"
            /\ ldr_err' = "OSError: No label files found"
       ELSE /\ ldr_pc' = "ready"
            /\ UNCHANGED ldr_err
    /\ UNCHANGED <<ldr_cfg, ldr_fs, ldr_image_paths, ldr_label_paths, ldr_images>>
    /\ LdrFrame

LdrNext ==
    LdrGetImagePaths \/ LdrGetLabelPaths \/ LdrGetImageObjects \/ LdrFinish

(***************************************************************************)
(* callbacks/funcs.py: init_callback_objects                               *)
(***************************************************************************)

\* dir(tfcb) and dir(tcb): the names of the two callback modules.  The
\* custom module defines its callbacks on top of tf.keras' Callback, which
\* is therefore a name of both.
TfCallbacks == {"Callback", "EarlyStopping"}
CustomCallbacks == {"Callback", "DelayedCallback", "ModelCheckPointClean"}

\* the class names descriptors are written with
DescriptorNames == {"Callback", "EarlyStopping", "ModelCheckPointClean", "NoSuchCallback"}

\* the entries of `callbacks`: descriptors (dicts) and callback objects
\* that are initialised already
Descriptors ==
    [type : {"dict"}, class_name : DescriptorNames,
     kwargs : {[monitor |-> "val_loss"]},
     start_from : {NoneVal, Some(0), Some(3)}, pass_logger : BOOLEAN]
GivenObjects == [type : {"object"}, cls : {"Validation", "DividerLine"}]
CallbackEntries == Descriptors \cup GivenObjects

\* lines 38-43, looking the name up in the custom module first
ResolveCustomFirst(cls_name) ==
    IF cls_name \in CustomCallbacks THEN "custom"
    ELSE IF cls_name \in TfCallbacks THEN "tf"
    ELSE "none"

\* lines 38-43: the module the class is taken from
Resolve(cls_name) ==
    IF cls_name \in TfCallbacks THEN "tf"
    ELSE IF cls_name \in CustomCallbacks THEN "custom"
    ELSE "none"

\* lines 33 and 36-37: the keyword arguments, with the logger when asked for
KwargsOf(callback) ==
    IF callback.pass_logger
    THEN [k \in DOMAIN callback.kwargs \cup {"logger"} |->
             IF k = "logger" THEN "logger" ELSE callback.kwargs[k]]
    ELSE callback.kwargs

\* lines 26-28 and 38-43, with the mistake of making a new callback of the
\* class of an entry that is a callback object already
CallbackOfRecreated(callback) ==
    IF callback.type # "dict"
    THEN [cls |-> callback.cls, module |-> Resolve(callback.cls),
          kwargs |-> [params |-> "?"]]
    ELSE [cls |-> callback.class_name, module |-> Resolve(callback.class_name),
          kwargs |-> KwargsOf(callback)]

\* lines 26-28 and 38-43: the callback of one entry, before any wrapping
CallbackOf(callback) ==
    IF callback.type # "dict" THEN callback
    ELSE [cls |-> callback.class_name, module |-> Resolve(callback.class_name),
          kwargs |-> KwargsOf(callback)]

\* lines 31 and 35: start_from (0 for an initialised object, None when the
\* descriptor gives none)
StartFromOf(callback) ==
    IF callback.type # "dict" THEN Some(0) ELSE callback.start_from

\* line 45, with the mistake of asking `start_from is not None`
TruthyNotNone(start_from) == start_from # NoneVal

\* line 45: `if start_from` (None and 0 are false)
Truthy(start_from) == start_from # NoneVal /\ start_from.v # 0

\* lines 47-49: the DelayedCallback around a callback
DelayedCallback(cb, start_from) ==
    [cls |-> "DelayedCallback", callback |-> cb, start_from |-> start_from]

\* the callback inside a DelayedCallback, or the callback itself
Unwrapped(cb) == IF "callback" \in DOMAIN cb THEN cb.callback ELSE cb

\* cls_name of an entry (lines 30 and 34)
ClsNameOf(callback) ==
    IF callback.type # "dict" THEN callback.cls ELSE callback.class_name

\* d[k] = v
DictSet(d, k, v) == [x \in DOMAIN d \cup {k} |-> IF x = k THEN v ELSE d[x]]

CBInit ==
    /\ cb_pc = "loop"
    /\ \E n \in 0..MaxCallbacks : cb_input \in [1..n -> CallbackEntries]
    /\ cb_i = 0
    /\ cb_objs = <<>>
    /\ cb_dict = <<>>
    /\ cb_err = "none"

CBIdle ==
    /\ cb_pc = "idle"
    /\ cb_input = <<>>
    /\ cb_i = 0
    /\ cb_objs = <<>>
    /\ cb_dict = <<>>
    /\ cb_err = "none"

\* lines 25-54: one pass of the loop over `callbacks`
CBIter ==
    /\ cb_pc = "loop"
    /\ cb_i < Len(cb_input)
    /\ LET callback == cb_input[cb_i + 1]
           made == CallbackOf(callback)
           start_from == StartFromOf(callback)
           cb == IF Truthy(start_from) THEN DelayedCallback(made, start_from.v)
                 ELSE made
       IN IF callback.type = "dict" /\ made.module = "none"
          THEN /\ cb_pc' = "raised"
               /\ cb_err' = "ValueError: No callback named"
               /\ UNCHANGED <<cb_i, cb_objs, cb_dict>>
          ELSE /\ cb_objs' = Append(cb_objs, cb)
               /\ cb_dict' = DictSet(cb_dict, ClsNameOf(callback), cb)
               /\ cb_i' = cb_i + 1
               /\ UNCHANGED <<cb_pc, cb_err>>
    /\ UNCHANGED cb_input
    /\ CBFrame

\* line 56: return cb_objs, cb_dict
CBReturn ==
    /\ cb_pc = "loop"
    /\ cb_i = Len(cb_input)
    /\ cb_pc' = "returned"
    /\ UNCHANGED <<cb_input, cb_i, cb_objs, cb_dict, cb_err>>
    /\ CBFrame

CBNext == CBIter \/ CBReturn

(***************************************************************************)
(* train/trainer.py: Trainer.fit and _fit_loop                             *)
(***************************************************************************)

\* the callbacks a caller gives to fit: descriptors, with or without an
\* activation epoch, watching a validation metric or not, and a callback
\* object
UserCallbacks ==
    [type : {"dict"}, class_name : {"ModelCheckPointClean", "EarlyStopping"},
     kwargs : {[monitor |-> "val_loss"], [monitor |-> "loss"]},
     start_from : {NoneVal, Some(3)}, pass_logger : {FALSE}]
    \cup {[type |-> "object", cls |-> "LearningCurve"]}

\* the callback objects _fit_loop makes itself (lines 171, 187, 190, 191)
Validation == [type |-> "object", cls |-> "Validation"]
SavePredictionImages == [type |-> "object", cls |-> "SavePredictionImages"]
FGBatchBalancer == [type |-> "object", cls |-> "FGBatchBalancer"]
DividerLine == [type |-> "object", cls |-> "DividerLine"]

\* line 161: "val" in str(v), for the values the descriptors are written with
HasVal(v) == v = "val_loss"

\* line 161: the descriptors kept when there is no validation data; c["kwargs"]
\* of a callback object raises TypeError (None stands for it)
WithoutValCallbacks(callbacks) ==
    IF \E k \in 1..Len(callbacks) : callbacks[k].type # "dict" THEN NoneVal
    ELSE Some(SelectSeq(callbacks,
              LAMBDA c : ~\E a \in DOMAIN c.kwargs : HasVal(c.kwargs[a])))

\* line 173, with the mistake of putting the validation callback last
WithValidationLast(callbacks) == callbacks \o <<Validation>>

\* line 173: callbacks = [validation] + callbacks
WithValidation(callbacks) == <<Validation>> \o callbacks

\* lines 185-192: the callbacks appended to the list
WithAppended(callbacks, no_im) ==
    callbacks \o (IF no_im THEN <<>> ELSE <<SavePredictionImages>>)
              \o <<FGBatchBalancer, DividerLine>>

\* callbacks/funcs.py lines 25-52, for a whole list: the list cb_objs
CbObjs(callbacks) ==
    [k \in 1..Len(callbacks) |->
        IF Truthy(StartFromOf(callbacks[k]))
        THEN DelayedCallback(CallbackOf(callbacks[k]), StartFromOf(callbacks[k]).v)
        ELSE CallbackOf(callbacks[k])]

\* callbacks/funcs.py line 52: cb_dict.get(name) is the object appended for
\* the last entry of that class name: its position in cb_objs, 0 for None
CbDictGet(callbacks, name) ==
    LET ks == {k \in 1..Len(callbacks) : ClsNameOf(callbacks[k]) = name}
    IN IF ks = {} THEN 0 ELSE CHOOSE k \in ks : \A j \in ks : j <= k

\* line 201: cb.org_model = self.org_model sets the attribute on the object
\* cb names
WithOrgModel(cb) == [org_model |-> "self.org_model"] @@ cb

\* lines 194-201: the callback objects, with org_model set on the one that
\* cb_dict holds as ModelCheckPointClean
InitializedCallbacks(callbacks) ==
    LET cb == CbDictGet(callbacks, "ModelCheckPointClean")
    IN [k \in 1..Len(callbacks) |->
          IF k = cb THEN WithOrgModel(CbObjs(callbacks)[k]) ELSE CbObjs(callbacks)[k]]

\* lines 159-201: the list handed to fit_generator, None when _fit_loop
\* raises before it gets there
FitLoopCallbacks(callbacks, has_val, no_im) ==
    IF has_val
    THEN Some(InitializedCallbacks(WithAppended(WithValidation(callbacks), no_im)))
    ELSE IF WithoutValCallbacks(callbacks) = NoneVal THEN NoneVal
    ELSE Some(InitializedCallbacks(WithAppended(WithoutValCallbacks(callbacks).v, no_im)))

\* line 122, with the mistake of going on with a batch size of zero
BatchTooSmallZero(batch_size) == batch_size < 0

\* line 122: the lowered batch size ends the loop
BatchTooSmall(batch_size) == batch_size < 1

FitInit ==
    /\ fit_pc = "loop"
    /\ fit_batch_size \in 1..MaxBatch
    /\ fit_fitting = TRUE
    /\ fit_has_val \in BOOLEAN
    /\ fit_train_bs \in {1, MaxBatch}
    /\ fit_val_bs \in {1, MaxBatch}
    /\ fit_hparams_bs = fit_batch_size
    /\ \E n \in 0..MaxUserCallbacks : fit_callbacks \in [1..n -> UserCallbacks]
    /\ fit_no_im \in BOOLEAN
    /\ fit_attempts = <<>>

FitIdle ==
    /\ fit_pc = "idle"
    /\ fit_batch_size = 1
    /\ fit_fitting = FALSE
    /\ fit_has_val = FALSE
    /\ fit_train_bs = 1
    /\ fit_val_bs = 1
    /\ fit_hparams_bs = 1
    /\ fit_callbacks = <<>>
    /\ fit_no_im = FALSE
    /\ fit_attempts = <<>>

SetOutcome(outcome) ==
    [fit_attempts EXCEPT ![Len(fit_attempts)].outcome = outcome]

\* lines 110-114 and 149-216: the loop calls _fit_loop, which sets the batch
\* size on the sequences, puts the callbacks together and reaches
\* fit_generator.  A batch size of zero makes line 154 divide by zero and a
\* callback object without validation data makes line 161 raise TypeError;
\* lines 127-129 log the exception and raise it again.
FitAttemptStart ==
    /\ fit_pc = "loop"
    /\ fit_fitting
    /\ fit_train_bs' = fit_batch_size
    /\ LET handed == FitLoopCallbacks(fit_callbacks, fit_has_val, fit_no_im)
       IN IF fit_batch_size = 0
          THEN /\ fit_pc' = "raised"
               /\ fit_attempts' = Append(fit_attempts,
                     [batch_size |-> fit_batch_size, train_bs |-> fit_train_bs',
                      val_bs |-> fit_val_bs, callbacks |-> NoneVal,
                      outcome |-> "error"])
               /\ UNCHANGED fit_val_bs
          ELSE /\ fit_val_bs' = IF fit_has_val THEN fit_batch_size ELSE fit_val_bs
               /\ fit_pc' = IF handed = NoneVal THEN "raised" ELSE "attempt"
               /\ fit_attempts' = Append(fit_attempts,
                     [batch_size |-> fit_batch_size, train_bs |-> fit_train_bs',
                      val_bs |-> fit_val_bs', callbacks |-> handed,
                      outcome |-> IF handed = NoneVal THEN "error" ELSE "running"])
    /\ UNCHANGED <<fit_batch_size, fit_fitting, fit_has_val, fit_hparams_bs,
                   fit_callbacks, fit_no_im>>
    /\ FitFrame

\* line 115: _fit_loop returned
FitAttemptDone ==
    /\ fit_pc = "attempt"
    /\ fit_fitting' = FALSE
    /\ fit_pc' = "loop"
    /\ fit_attempts' = SetOutcome("ok")
    /\ UNCHANGED <<fit_batch_size, fit_has_val, fit_train_bs, fit_val_bs,
                   fit_hparams_bs, fit_callbacks, fit_no_im>>
    /\ FitFrame

\* lines 116-124: ResourceExhaustedError
FitAttemptOOM ==
    /\ fit_pc = "attempt"
    /\ fit_batch_size' = fit_batch_size - 2
    /\ fit_hparams_bs' = fit_batch_size'
    /\ fit_fitting' = IF BatchTooSmall(fit_batch_size') THEN FALSE ELSE fit_fitting
    /\ fit_pc' = "loop"
    /\ fit_attempts' = SetOutcome("oom")
    /\ UNCHANGED <<fit_has_val, fit_train_bs, fit_val_bs, fit_callbacks, fit_no_im>>
    /\ FitFrame

\* lines 125-126: KeyboardInterrupt
FitAttemptInterrupt ==
    /\ fit_pc = "attempt"
    /\ fit_fitting' = FALSE
    /\ fit_pc' = "loop"
    /\ fit_attempts' = SetOutcome("interrupt")
    /\ UNCHANGED <<fit_batch_size, fit_has_val, fit_train_bs, fit_val_bs,
                   fit_hparams_bs, fit_callbacks, fit_no_im>>
    /\ FitFrame

\* lines 127-129: any other exception is logged and raised again
FitAttemptError ==
    /\ fit_pc = "attempt"
    /\ fit_pc' = "raised"
    /\ fit_attempts' = SetOutcome("error")
    /\ UNCHANGED <<fit_batch_size, fit_fitting, fit_has_val, fit_train_bs,
                   fit_val_bs, fit_hparams_bs, fit_callbacks, fit_no_im>>
    /\ FitFrame

\* lines 131-143: the loop is left, fit returns the model
FitStop ==
    /\ fit_pc = "loop"
    /\ ~fit_fitting
    /\ fit_pc' = "stopped"
    /\ UNCHANGED <<fit_batch_size, fit_fitting, fit_has_val, fit_train_bs,
                   fit_val_bs, fit_hparams_bs, fit_callbacks, fit_no_im,
                   fit_attempts>>
    /\ FitFrame

FitNext ==
    \/ FitAttemptStart \/ FitAttemptDone \/ FitAttemptOOM
    \/ FitAttemptInterrupt \/ FitAttemptError \/ FitStop

(***************************************************************************)
(* train/hparams.py: YAMLHParams                                           *)
(***************************************************************************)
NL == "\n"
CR == "\r"

\* s.lstrip(chars), s.rstrip(chars), s.strip(chars)
RECURSIVE LStrip(_, _)
LStrip(s, chars) ==
    IF s # <<>> /\ Head(s) \in chars THEN LStrip(Tail(s), chars) ELSE s

RECURSIVE RStrip(_, _)
RStrip(s, chars) ==
    IF s # <<>> /\ s[Len(s)] \in chars
    THEN RStrip(SubSeq(s, 1, Len(s) - 1), chars) ELSE s

Strip(s, chars) == LStrip(RStrip(s, chars), chars)

\* the characters str.lstrip() removes when given no argument
Whitespace == {" ", NL, CR}

\* open(path, "r") with universal newlines: "\r\n" and "\r" are read as "\n"
RECURSIVE ReadText(_)
ReadText(s) ==
    IF s = <<>> THEN <<>>
    ELSE IF Head(s) = CR
    THEN <<NL>> \o ReadText(IF Len(s) >= 2 /\ s[2] = NL THEN SubSeq(s, 3, Len(s))
                            ELSE Tail(s))
    ELSE <<Head(s)>> \o ReadText(Tail(s))

\* lines 20-22: the lines of the file, joined again
ReadLines(disk_text) == ReadText(disk_text)

(***************************************************************************)
(* YAML values, and YAML(...).load for the block mappings the              *)
(* hyper-parameter files are written in: groups at column 0, each either   *)
(* `name: scalar` or `name:` followed by indented `field: scalar` lines;   *)
(* blank lines and comment lines are skipped.                              *)
(***************************************************************************)
VNone == [kind |-> "none"]
VBool(b) == [kind |-> "bool", b |-> b]
VInt(i) == [kind |-> "int", i |-> i]
VStr(s) == [kind |-> "str", s |-> s]
VMap(m) == [kind |-> "map", m |-> m]

Digits == <<"0", "1", "2", "3", "4", "5", "6", "7", "8", "9">>
IsDigit(c) == \E k \in 1..10 : Digits[k] = c
DigitValue(c) == (CHOOSE k \in 1..10 : Digits[k] = c) - 1

RECURSIVE NatValue(_)
NatValue(s) ==
    IF s = <<>> THEN 0
    ELSE 10 * NatValue(SubSeq(s, 1, Len(s) - 1)) + DigitValue(s[Len(s)])

RECURSIVE NatText(_)
\* str(n) for n >= 0
NatText(n) ==
    IF n < 10 THEN <<Digits[n + 1]>> ELSE NatText(n \div 10) \o <<Digits[(n % 10) + 1]>>

\* the value of a plain scalar (YAML 1.2 core schema)
Scalar(s) ==
    IF s \in {<<>>, <<"~">>, <<"n", "u", "l", "l">>, <<"N", "u", "l", "l">>}
    THEN VNone
    ELSE IF s \in {<<"f", "a", "l", "s", "e">>, <<"F", "a", "l", "s", "e">>}
    THEN VBool(FALSE)
    ELSE IF s \in {<<"t", "r", "u", "e">>, <<"T", "r", "u", "e">>}
    THEN VBool(TRUE)
    ELSE IF \A k \in 1..Len(s) : IsDigit(s[k])
    THEN VInt(NatValue(s))
    ELSE VStr(s)

\* str(value)
StrOf(v) ==
    CASE v.kind = "none" -> <<"N", "o", "n", "e">>
      [] v.kind = "bool" -> IF v.b THEN <<"T", "r", "u", "e">>
                            ELSE <<"F", "a", "l", "s", "e">>
      [] v.kind = "int" -> NatText(v.i)
      [] v.kind = "str" -> v.s
      [] OTHER -> <<"{", "}">>

\* one line of a document: blank (or comment), an entry `key:` / `key: text`
\* at some indent, or something else
YamlLine(line) ==
    LET body == RStrip(LStrip(line, {" "}), {" "})
        indent == Len(line) - Len(LStrip(line, {" "}))
        colon == FindFrom(body, <<":">>, 1)
        key == SubSeq(body, 1, colon - 1)
        rest == SubSeq(body, colon + 1, Len(body))
    IN IF body = <<>> \/ Head(body) = "#" THEN [type |-> "blank"]
       ELSE IF colon <= 1 \/ Contains(key, <<" ">>) THEN [type |-> "other"]
       ELSE IF rest = <<>>
       THEN [type |-> "entry", indent |-> indent, key |-> key, open |-> TRUE,
             text |-> <<>>]
       ELSE IF Head(rest) = " "
       THEN [type |-> "entry", indent |-> indent, key |-> key, open |-> FALSE,
             text |-> LStrip(rest, {" "})]
       ELSE [type |-> "other"]

\* the lines of a document that are not blank
YamlLines(text) ==
    SelectSeq([k \in 1..Len(Split(text, NL)) |-> YamlLine(Split(text, NL)[k])],
              LAMBDA l : l.type # "blank")

InvalidYaml == [ok |-> FALSE]

RECURSIVE LoadLines(_, _, _, _)
\* lines: what is left to read; doc: the groups read so far; cur: the key of
\* the group whose fields are being read (<<>> when none); ind: their indent
LoadLines(lines, doc, cur, ind) ==
    IF lines = <<>> THEN [ok |-> TRUE, doc |-> doc]
    ELSE LET l == Head(lines) IN
         IF l.type # "entry" THEN InvalidYaml
         ELSE IF l.indent = 0
         THEN IF l.key \in DOMAIN doc THEN InvalidYaml
              ELSE IF l.open
              THEN LoadLines(Tail(lines), DictSet(doc, l.key, VNone), l.key, 0)
              ELSE LoadLines(Tail(lines), DictSet(doc, l.key, Scalar(l.text)), <<>>, 0)
         ELSE IF cur = <<>> \/ l.open THEN InvalidYaml
         ELSE IF ind # 0 /\ l.indent # ind THEN InvalidYaml
         ELSE LET fields == IF doc[cur] = VNone THEN <<>> ELSE doc[cur].m
              IN IF l.key \in DOMAIN fields THEN InvalidYaml
                 ELSE LoadLines(Tail(lines),
                                DictSet(doc, cur, VMap(DictSet(fields, l.key, Scalar(l.text)))),
                                cur, l.indent)

\* YAML(...).load(text): [ok |-> FALSE] when the load raises; an empty
\* document loads as None
YamlLoad(text) ==
    IF YamlLines(text) = <<>> THEN [ok |-> TRUE, doc |-> VNone]
    ELSE LET r == LoadLines(YamlLines(text), <<>>, <<>>, 0)
         IN IF r.ok THEN [ok |-> TRUE, doc |-> VMap(r.doc)] ELSE r

\* k[:4] != "__CB"
IsCB(name) == SubSeq(name, 1, Min(4, Len(name))) = <<"_", "_", "C", "B">>

\* line 26: the groups kept in the dict
WithoutCB(m) == [k \in {x \in DOMAIN m : ~IsCB(x)} |-> m[k]]

\* the index of the first "\n" at or after p, 0 when there is none
LineEnd(s, p) == FindFrom(s, <<NL>>, p)

\* line 35: the pattern \n^(?![ \n])(.*?:.*?\n) matches at p
IsGroupStart(s, p) ==
    /\ s[p] = NL
    /\ p + 1 <= Len(s)
    /\ s[p + 1] \notin {" ", NL}
    /\ LineEnd(s, p + 1) # 0
    /\ Contains(SubSeq(s, p + 1, LineEnd(s, p + 1) - 1), <<":">>)

RECURSIVE GroupStarts(_, _)
\* lines 37-38: where re.finditer finds the pattern, from index pos on; a
\* match takes the header line with its line end, so the next one is looked
\* for after it
GroupStarts(s, pos) ==
    LET found == {p \in pos..Len(s) : IsGroupStart(s, p)}
    IN IF found = {} THEN <<>>
       ELSE LET p == CHOOSE x \in found : \A y \in found : x <= y
            IN <<p>> \o GroupStarts(s, LineEnd(s, p + 1) + 1)

\* lines 33-42: the property `groups`
Groups(s) ==
    LET starts == GroupStarts(s, 1)
        n == Len(starts)
    IN [k \in 1..(n + 1) |->
          SubSeq(s, IF k = 1 THEN 1 ELSE starts[k - 1],
                    IF k = n + 1 THEN Len(s) ELSE starts[k] - 1)]

\* g.split(":")[0]
BeforeColon(g) == Split(g, ":")[1]

\* lines 44-46: get_group; None stands for the ValueError of list.index
GetGroup(s, group_name) ==
    LET groups == [k \in 1..Len(Groups(s)) |->
                      LStrip(LStrip(Groups(s)[k], {NL}), {" "})]
        hits == {k \in 1..Len(groups) : BeforeColon(groups[k]) = group_name}
    IN IF hits = {} THEN NoneVal
       ELSE Some(groups[CHOOSE k \in hits : \A j \in hits : k <= j])

\* line 49: the group name of the text given to add_group
GroupNameOf(yaml_string) == BeforeColon(LStrip(LStrip(yaml_string, {" "}), {NL}))

\* line 96: the groups whose text starts with subdir
SelectGroup(s, subdir) ==
    SelectSeq(Groups(s),
              LAMBDA g : SubSeq(LStrip(g, Whitespace), 1,
                                Min(Len(subdir), Len(LStrip(g, Whitespace)))) = subdir)

RECURSIVE SubValue(_, _, _)
\* lines 99-108: re.sub of the pattern name:[ ]+(.*)[ ]?\n in the group; a
\* match runs from an occurrence of "name: " to the end of that line and
\* captures what follows the spaces; rep_func replaces every occurrence of
\* the captured text in the match by str(value)
SubValue(group, name, text) ==
    LET found == {i \in 1..Len(group) :
                    MatchAt(group, name \o <<":", " ">>, i) /\ LineEnd(group, i) # 0}
    IN IF found = {} THEN group
       ELSE LET i == CHOOSE x \in found : \A y \in found : x <= y
                q == LineEnd(group, i)
                captured == LStrip(SubSeq(group, i + Len(name) + 1, q - 1), {" "})
            IN SubSeq(group, 1, i - 1)
               \o Replace(SubSeq(group, i, q), captured, text)
               \o SubValue(SubSeq(group, q + 1, Len(group)), name, text)

\* lines 113-117: the group with a new field line; None stands for the
\* IndexError of split("\n")[1] on a group of one line
WithNewField(group, name, text) ==
    LET stripped == Strip(group, {NL})
        lines == Split(stripped, NL)
    IN IF Len(lines) < 2 THEN NoneVal
       ELSE LET temp == lines[2]
                indent == Len(temp) - Len(LStrip(temp, Whitespace))
            IN Some(<<NL>> \o stripped \o <<NL>> \o [k \in 1..indent |-> " "]
                    \o name \o <<":", " ">> \o text \o <<NL>>)

\* lines 93-120: the outcome of the update of string_rep in set_value:
\* the new text, or the exception raised on the way
UpdatedRep(s, subdir, name, value, name_exists) ==
    LET selected == SelectGroup(s, subdir)
    IN IF selected = <<>> THEN [raised |-> "IndexError", rep |-> s]
       ELSE LET group == selected[1]
                subbed == SubValue(group, name, StrOf(value))
            IN IF name_exists
               THEN [raised |-> "none", rep |-> Replace(s, group, subbed)]
               ELSE IF subbed # group
               THEN [raised |-> "AssertionError", rep |-> s]
               ELSE IF WithNewField(subbed, name, StrOf(value)) = NoneVal
               THEN [raised |-> "IndexError", rep |-> s]
               ELSE [raised |-> "none",
                     rep |-> Replace(s, group,
                                     WithNewField(subbed, name, StrOf(value)).v)]

\* out_f.write, with the mistake of ending the text with one more line end
WriteTextNewline(s) == s \o <<NL>>

\* line 133: out_f.write(text) on a file opened with "w" (POSIX: "\n" is
\* written as "\n")
WriteText(s) == s

\* the YAML files the object is built from
\*   FileBlank:   f:\n  n: 1\n  mn: m\n\ng:\n  n: ~\n
\*   FileDense:   fx:\n  n: ~\nf:\n  n: ~\n
\*   FileCB:      # c\n__CB:\n  n: 1\n\nf:\n  n: ~\n
\*   FileCRLF:    f:\r\n  n: 1\r\n
\*   FileEmpty:   (no character)
\*   FileZero:    f:\n  mn: 0\n
FileBlank == <<"f", ":", NL, " ", " ", "n", ":", " ", "1", NL,
               " ", " ", "m", "n", ":", " ", "m", NL, NL,
               "g", ":", NL, " ", " ", "n", ":", " ", "~", NL>>
FileDense == <<"f", "x", ":", NL, " ", " ", "n", ":", " ", "~", NL,
               "f", ":", NL, " ", " ", "n", ":", " ", "~", NL>>
FileCB == <<"#", " ", "c", NL, "_", "_", "C", "B", ":", NL,
            " ", " ", "n", ":", " ", "1", NL, NL,
            "f", ":", NL, " ", " ", "n", ":", " ", "~", NL>>
FileCRLF == <<"f", ":", CR, NL, " ", " ", "n", ":", " ", "1", CR, NL>>
FileEmpty == <<>>
FileZero == <<"f", ":", NL, " ", " ", "m", "n", ":", " ", "0", NL>>
Files == {FileBlank, FileDense, FileCB, FileCRLF, FileEmpty, FileZero}

\* the arguments of the calls:  add_group("h:\n  k: 1\n"),
\* delete_group and set_value on the groups f and h, the fields n, mn and k
AddGroupTexts == {<<"h", ":", NL, " ", " ", "k", ":", " ", "1", NL>>}
GroupArgs == {<<"f">>, <<"h">>}
NameArgs == {<<"n">>, <<"m", "n">>, <<"k">>}
ValueArgs == {VInt(2)}

NoCall == [op |-> "none", raised |-> "none"]

HPInit ==
    /\ hp_pc = "new"
    /\ hp_file \in Files
    /\ hp_string_rep = <<>>
    /\ hp_dict = <<>>
    /\ hp_calls = 0
    /\ hp_last = NoCall
    /\ hp_written = NoneVal

HPIdle ==
    /\ hp_pc = "idle"
    /\ hp_file = <<>>
    /\ hp_string_rep = <<>>
    /\ hp_dict = <<>>
    /\ hp_calls = 0
    /\ hp_last = NoCall
    /\ hp_written = NoneVal

\* lines 7-31: __init__ reads the file and loads it
HPLoad ==
    /\ hp_pc = "new"
    /\ hp_string_rep' = ReadLines(hp_file)
    /\ LET hparams == YamlLoad(hp_string_rep')
       IN IF ~hparams.ok
          THEN /\ hp_pc' = "raised"
               /\ hp_last' = [op |-> "init", raised |-> "YAMLError"]
               /\ UNCHANGED hp_dict
          ELSE IF hparams.doc.kind # "map"
          THEN /\ hp_pc' = "raised"
               /\ hp_last' = [op |-> "init", raised |-> "TypeError"]
               /\ UNCHANGED hp_dict
          ELSE /\ hp_pc' = "loaded"
               /\ hp_dict' = WithoutCB(hparams.doc.m)
               /\ hp_last' = [op |-> "init", raised |-> "none"]
    /\ UNCHANGED <<hp_file, hp_calls, hp_written>>
    /\ HPFrame

\* lines 48-55: add_group
HPAddGroup(yaml_string) ==
    /\ hp_pc = "loaded"
    /\ hp_calls < MaxCalls
    /\ hp_calls' = hp_calls + 1
    /\ LET loaded == YamlLoad(yaml_string)
           call == [op |-> "add_group", yaml_string |-> yaml_string,
                    pre_rep |-> hp_string_rep, pre_dict |-> hp_dict]
       IN IF ~loaded.ok
          THEN /\ hp_last' = call @@ [raised |-> "YAMLError"]
               /\ UNCHANGED <<hp_dict, hp_string_rep>>
          ELSE /\ hp_dict' = DictSet(hp_dict, GroupNameOf(yaml_string), loaded.doc)
               /\ hp_string_rep' = hp_string_rep \o <<NL>> \o yaml_string
               /\ hp_last' = call @@ [raised |-> "none"]
    /\ UNCHANGED <<hp_pc, hp_file, hp_written>>
    /\ HPFrame

\* lines 57-59: delete_group
HPDeleteGroup(group_name) ==
    /\ hp_pc = "loaded"
    /\ hp_calls < MaxCalls
    /\ hp_calls' = hp_calls + 1
    /\ LET group == GetGroup(hp_string_rep, group_name)
           call == [op |-> "delete_group", group_name |-> group_name,
                    pre_rep |-> hp_string_rep, pre_dict |-> hp_dict]
       IN IF group = NoneVal
          THEN /\ hp_last' = call @@ [raised |-> "ValueError"]
               /\ UNCHANGED <<hp_dict, hp_string_rep>>
          ELSE /\ hp_string_rep' = Replace(hp_string_rep, group.v, <<>>)
               /\ IF group_name \in DOMAIN hp_dict
                  THEN /\ hp_dict' = [k \in DOMAIN hp_dict \ {group_name} |-> hp_dict[k]]
                       /\ hp_last' = call @@ [raised |-> "none"]
                  ELSE /\ hp_last' = call @@ [raised |-> "KeyError"]
                       /\ UNCHANGED hp_dict
    /\ UNCHANGED <<hp_pc, hp_file, hp_written>>
    /\ HPFrame

\* lines 78-125: set_value
HPSetValue(subdir, name, value, update_string_rep, overwrite) ==
    /\ hp_pc = "loaded"
    /\ hp_calls < MaxCalls
    /\ hp_calls' = hp_calls + 1
    /\ LET call == [op |-> "set_value", subdir |-> subdir, name |-> name,
                    value |-> value, update_string_rep |-> update_string_rep,
                    overwrite |-> overwrite,
                    pre_rep |-> hp_string_rep, pre_dict |-> hp_dict]
       IN IF subdir \notin DOMAIN hp_dict
          THEN /\ hp_last' = call @@ [raised |-> "KeyError", ret |-> "none"]
               /\ UNCHANGED <<hp_dict, hp_string_rep>>
          ELSE IF hp_dict[subdir].kind # "map"
          THEN /\ hp_last' = call @@ [raised |-> "TypeError", ret |-> "none"]
               /\ UNCHANGED <<hp_dict, hp_string_rep>>
          ELSE LET fields == hp_dict[subdir].m
                   exists == name \in DOMAIN fields
                   cur_value == IF exists THEN fields[name] ELSE VNone
               IN IF ~exists \/ cur_value = VNone \/ cur_value = VBool(FALSE)
                     \/ overwrite
                  THEN /\ hp_dict' = [hp_dict EXCEPT
                                        ![subdir] = VMap(DictSet(fields, name, value))]
                       /\ IF update_string_rep
                          THEN LET upd == UpdatedRep(hp_string_rep, subdir, name,
                                                     value, exists)
                               IN /\ hp_string_rep' = upd.rep
                                  /\ hp_last' = call @@
                                       [raised |-> upd.raised,
                                        ret |-> IF upd.raised = "none" THEN "True"
                                                ELSE "none"]
                          ELSE /\ hp_last' = call @@ [raised |-> "none", ret |-> "True"]
                               /\ UNCHANGED hp_string_rep
                  ELSE /\ hp_last' = call @@ [raised |-> "none", ret |-> "False"]
                       /\ UNCHANGED <<hp_dict, hp_string_rep>>
    /\ UNCHANGED <<hp_pc, hp_file, hp_written>>
    /\ HPFrame

\* lines 127-133: save_current, to the path given or back to yaml_path
HPSaveCurrent(out_path) ==
    /\ hp_pc = "loaded"
    /\ hp_written' = Some([path |-> IF out_path = NoneVal THEN "yaml_path" ELSE out_path.v,
                           text |-> WriteText(hp_string_rep),
                           calls |-> hp_calls])
    /\ UNCHANGED <<hp_pc, hp_file, hp_string_rep, hp_dict, hp_calls, hp_last>>
    /\ HPFrame

HPNext ==
    \/ HPLoad
    \/ \E yaml_string \in AddGroupTexts : HPAddGroup(yaml_string)
    \/ \E group_name \in GroupArgs : HPDeleteGroup(group_name)
    \/ \E subdir \in GroupArgs, name \in NameArgs, value \in ValueArgs,
          update_string_rep \in BOOLEAN, overwrite \in BOOLEAN :
          HPSetValue(subdir, name, value, update_string_rep, overwrite)
    \/ \E out_path \in {NoneVal, Some("out_path")} : HPSaveCurrent(out_path)


(***************************************************************************)
(* image/image_pair_loader.py: a loader in use.  The images of the loader  *)
(* are 1..lu_n.  ImageQueue is the bounded queue of loaded images          *)
(* (MultiPlanarUNet.image.image_queue): the loader makes it in set_queue,  *)
(* configures and starts it in get_sequencer and checks images out of it   *)
(* in get_random.                                                          *)
(***************************************************************************)
\* line 99: self.queue = False
NoQueue == [exists |-> FALSE]

\* ImageQueue(max_load, self), line 115: not started, no functions set, no
\* image checked out
ImageQueue(max_load) ==
    [exists |-> TRUE, max_load |-> max_load, entry_func |-> NoneVal,
     exit_func |-> NoneVal, started |-> FALSE, full |-> FALSE,
     checked_out |-> <<>>]

\* queue.get() is used as a context manager (line 172): entering it checks
\* an image out of the queue, and the queue keeps it loaded for the holder
Checkout(queue, image) ==
    [queue EXCEPT !.checked_out = Append(@, image)]

\* leaving the context of queue.get() gives the image checked out last back
Release(queue) ==
    [queue EXCEPT !.checked_out = SubSeq(@, 1, Len(@) - 1)]

\* the values set_queue is called with: None, a float, and integers around
\* the number of images
VFloat == [kind |-> "float"]
MaxLoadArgs == {VNone, VFloat} \cup {VInt(i) : i \in -1..(MaxLoaded + 1)}

\* line 111, with the mistake of `max_load <= len(self)`
MakesQueueUpTo(max_load, n) == max_load.kind = "int" /\ max_load.i <= n

\* line 111: isinstance(max_load, int) and max_load < len(self)
MakesQueue(max_load, n) == max_load.kind = "int" /\ max_load.i < n

NoSetQueue == [op |-> "none"]

LUInit ==
    /\ lu_pc = "ready"
    /\ lu_n \in 0..MaxLoaded
    /\ lu_queue = NoQueue
    /\ lu_setq = NoSetQueue
    /\ lu_sets = 0
    /\ lu_N = 0
    /\ lu_unique = FALSE
    /\ lu_returned = <<>>
    /\ lu_held = 0
    /\ lu_style = ""
    /\ lu_todo = <<>>
    /\ lu_events = <<>>
    /\ lu_err = "none"

LUIdle ==
    /\ lu_pc = "idle"
    /\ lu_n = 0
    /\ lu_queue = NoQueue
    /\ lu_setq = NoSetQueue
    /\ lu_sets = 0
    /\ lu_N = 0
    /\ lu_unique = FALSE
    /\ lu_returned = <<>>
    /\ lu_held = 0
    /\ lu_style = ""
    /\ lu_todo = <<>>
    /\ lu_events = <<>>
    /\ lu_err = "none"

\* lines 101-115: set_queue
LUSetQueue(max_load) ==
    /\ lu_pc = "ready"
    /\ lu_sets < MaxSetQueue
    /\ lu_sets' = lu_sets + 1
    /\ lu_setq' = [op |-> "set_queue", max_load |-> max_load, before |-> lu_queue]
    /\ lu_queue' = IF MakesQueue(max_load, lu_n) THEN ImageQueue(max_load.i)
                   ELSE lu_queue
    /\ UNCHANGED <<lu_pc, lu_n, lu_N, lu_unique, lu_returned, lu_held, lu_style,
                   lu_todo, lu_events, lu_err>>
    /\ LUFrame

\* line 173 / line 180, with the mistake of testing the last image only
IsRepeatOfLast(image, returned, unique) ==
    unique /\ returned # <<>> /\ returned[Len(returned)] = image

\* line 173 / line 180: unique and image in returned
IsRepeat(image, returned, unique) ==
    unique /\ \E k \in 1..Len(returned) : returned[k] = image

\* lines 172-174, with the mistake of an image taken outside a with block
\* and given back only after it was yielded
OnContinueHeld(queue) == queue

\* lines 172-174: `continue` leaves the with block of queue.get()
OnContinue(queue) == Release(queue)

\* lines 172-177: going on after the yield leaves the with block, when the
\* image came from the queue
AfterYield(queue) == IF queue.exists THEN Release(queue) ELSE queue

\* lines 158-169: get_random(N, unique) makes the generator; its body runs
\* when the caller iterates
LUGetRandom(N, unique) ==
    /\ lu_pc = "ready"
    /\ lu_pc' = "loop"
    /\ lu_N' = N
    /\ lu_unique' = unique
    /\ lu_returned' = <<>>
    /\ UNCHANGED <<lu_n, lu_queue, lu_setq, lu_sets, lu_held, lu_style, lu_todo,
                   lu_events, lu_err>>
    /\ LUFrame

\* lines 170-172: with a queue, one more image is wanted and queue.get()
\* hands out an image of the loader the queue holds loaded (a queue that
\* was not started holds none)
LUCheckout(image) ==
    /\ lu_pc = "loop"
    /\ Len(lu_returned) < lu_N
    /\ lu_queue.exists
    /\ lu_queue.started
    /\ lu_held' = image
    /\ lu_queue' = Checkout(lu_queue, image)
    /\ lu_pc' = "checked"
    /\ UNCHANGED <<lu_n, lu_setq, lu_sets, lu_N, lu_unique, lu_returned,
                   lu_style, lu_todo, lu_events, lu_err>>
    /\ LUFrame

\* lines 173-177: inside the with block; `continue` leaves the block, which
\* gives the image back; otherwise the image is yielded with the block open
LUChecked ==
    /\ lu_pc = "checked"
    /\ IF IsRepeat(lu_held, lu_returned, lu_unique)
       THEN /\ lu_held' = 0
            /\ lu_queue' = OnContinue(lu_queue)
            /\ lu_pc' = "loop"
            /\ UNCHANGED lu_returned
       ELSE /\ lu_returned' = Append(lu_returned, lu_held)
            /\ lu_pc' = "yielded"
            /\ UNCHANGED <<lu_held, lu_queue>>
    /\ UNCHANGED <<lu_n, lu_setq, lu_sets, lu_N, lu_unique, lu_style,
                   lu_todo, lu_events, lu_err>>
    /\ LUFrame

\* lines 178-184: without a queue, one more image is wanted and
\* np.random.randint(len(self)) picks it; randint(0) raises ValueError
LUPick ==
    /\ lu_pc = "loop"
    /\ Len(lu_returned) < lu_N
    /\ ~lu_queue.exists
    /\ IF lu_n = 0
       THEN /\ lu_pc' = "raised"
            /\ lu_err' = "ValueError"
            /\ UNCHANGED lu_returned
       ELSE /\ \E image \in 1..lu_n :
                 IF IsRepeat(image, lu_returned, lu_unique)
                 THEN UNCHANGED <<lu_pc, lu_returned>>
                 ELSE /\ lu_returned' = Append(lu_returned, image)
                      /\ lu_pc' = "yielded"
            /\ UNCHANGED lu_err
    /\ UNCHANGED <<lu_n, lu_queue, lu_setq, lu_sets, lu_N, lu_unique, lu_held,
                   lu_style, lu_todo, lu_events>>
    /\ LUFrame

\* the caller asks for the next image: the generator goes on after the
\* yield, leaving the with block (line 172) when there is one
LUResume ==
    /\ lu_pc = "yielded"
    /\ lu_pc' = "loop"
    /\ lu_held' = 0
    /\ lu_queue' = AfterYield(lu_queue)
    /\ UNCHANGED <<lu_n, lu_setq, lu_sets, lu_N, lu_unique, lu_returned,
                   lu_style, lu_todo, lu_events, lu_err>>
    /\ LUFrame

\* line 170: len(returned) < N is false, the generator finishes
LUFinish ==
    /\ lu_pc = "loop"
    /\ Len(lu_returned) >= lu_N
    /\ lu_pc' = "done"
    /\ UNCHANGED <<lu_n, lu_queue, lu_setq, lu_sets, lu_N, lu_unique, lu_returned,
                   lu_held, lu_style, lu_todo, lu_events, lu_err>>
    /\ LUFrame


\* the values of intrp_style, and intrp_style.lower()
IntrpStyles == {"iso_live", "Iso_Live", "iso_live_3d", "patches_3d",
                "sliding_patches_3d", "voxel"}
Lower(style) == IF style = "Iso_Live" THEN "iso_live" ELSE style

\* lines 431, 454, 477, 496: the styles get_sequencer knows
ValidStyles == {"iso_live", "iso_live_3d", "patches_3d", "sliding_patches_3d"}
IsoStyles == {"iso_live", "iso_live_3d"}

\* lines 433, 456, 479, 498: the sequence class of a style
SequenceClass(style) ==
    CASE Lower(style) = "iso_live" -> "IsotrophicLiveViewSequence2D"
      [] Lower(style) = "iso_live_3d" -> "IsotrophicLiveViewSequence3D"
      [] Lower(style) = "patches_3d" -> "PatchSequence3D"
      [] OTHER -> "SlidingPatchSequence3D"

\* lines 386 and 362: what prepares one image of a style
PrepFunc(style) ==
    IF Lower(style) \in IsoStyles THEN "prepare_for_iso_live" ELSE "set_scaler"

\* lines 439, 462, 484, 503: the keyword arguments handed to the queue
EntryKw(style) ==
    IF Lower(style) \in IsoStyles THEN {"bg_value", "bg_class", "scaler"}
    ELSE {"bg_value", "scaler"}

\* lines 437, 460 (prepare_for_iso_live_views, lines 385-389) and 482, 501
\* (set_normalizer, lines 361-363): every image is prepared, in order
EagerCalls(style, n) ==
    [k \in 1..n |-> [call |-> "prepare", func |-> PrepFunc(style), image |-> k]]

\* lines 447-452, 470-475, 492-494, 510-513: the sequence object is made
CreateCall(style, queue) ==
    [call |-> "sequence", cls |-> SequenceClass(style), use_queue |-> queue.exists]

\* lines 439-445, with the mistake of starting the queue before its
\* functions are set
QueueCallsStartFirst(style) ==
    << [call |-> "start", n_threads |-> 3],
       [call |-> "set_entry_func", func |-> PrepFunc(style), kw |-> EntryKw(style)],
       [call |-> "set_exit_func", func |-> "unload"],
       [call |-> "await_full"] >>

\* lines 439-445, 462-468, 484-490, 503-509: the calls on the queue
QueueCalls(style) ==
    << [call |-> "set_entry_func", func |-> PrepFunc(style), kw |-> EntryKw(style)],
       [call |-> "set_exit_func", func |-> "unload"],
       [call |-> "start", n_threads |-> 3],
       [call |-> "await_full"] >>

\* lines 431-513: the calls get_sequencer makes for a valid style
SequencerCalls(style, queue, n) ==
    (IF queue.exists THEN QueueCalls(style) ELSE EagerCalls(style, n))
    \o <<CreateCall(style, queue)>>

\* what a call of get_sequencer does to the queue
QueueAfter(queue, c) ==
    CASE c.call = "set_entry_func" -> [queue EXCEPT !.entry_func = Some(c.func)]
      [] c.call = "set_exit_func" -> [queue EXCEPT !.exit_func = Some(c.func)]
      [] c.call = "start" -> [queue EXCEPT !.started = TRUE]
      [] c.call = "await_full" -> [queue EXCEPT !.full = TRUE]
      [] OTHER -> queue

\* lines 431-516: get_sequencer is entered; an unknown style raises
LUGetSequencer(style) ==
    /\ lu_pc = "ready"
    /\ lu_style = ""
    /\ lu_style' = style
    /\ IF Lower(style) \in ValidStyles
       THEN /\ lu_pc' = "seq"
            /\ lu_todo' = SequencerCalls(style, lu_queue, lu_n)
            /\ UNCHANGED lu_err
       ELSE /\ lu_pc' = "raised"
            /\ lu_err' = "ValueError"
            /\ UNCHANGED lu_todo
    /\ UNCHANGED <<lu_n, lu_queue, lu_setq, lu_sets, lu_N, lu_unique, lu_returned,
                   lu_held, lu_events>>
    /\ LUFrame

\* get_sequencer makes its next call; it returns after making the sequence
LUSeqCall ==
    /\ lu_pc = "seq"
    /\ lu_todo # <<>>
    /\ lu_events' = Append(lu_events, Head(lu_todo))
    /\ lu_todo' = Tail(lu_todo)
    /\ lu_queue' = QueueAfter(lu_queue, Head(lu_todo))
    /\ lu_pc' = IF Tail(lu_todo) = <<>> THEN "ready" ELSE "seq"
    /\ UNCHANGED <<lu_n, lu_setq, lu_sets, lu_N, lu_unique, lu_returned, lu_held,
                   lu_style, lu_err>>
    /\ LUFrame

LUNext ==
    \/ \E max_load \in MaxLoadArgs : LUSetQueue(max_load)
    \/ \E style \in IntrpStyles : LUGetSequencer(style)
    \/ LUSeqCall
    \/ \E N \in 0..MaxN, unique \in BOOLEAN : LUGetRandom(N, unique)
    \/ \E image \in 1..lu_n : LUCheckout(image)
    \/ LUChecked
    \/ LUPick
    \/ LUResume
    \/ LUFinish

(***************************************************************************)
(* The specifications, one per component.                                  *)
(***************************************************************************)
InitCV == CVInit /\ FitIdle /\ LdrIdle /\ CBIdle /\ HPIdle /\ LUIdle

SpecCV == InitCV /\ [][CVNext]_vars

InitFit == FitInit /\ CVIdle /\ LdrIdle /\ CBIdle /\ HPIdle /\ LUIdle

SpecFit == InitFit /\ [][FitNext]_vars

InitLoader == LdrInit /\ CVIdle /\ FitIdle /\ CBIdle /\ HPIdle /\ LUIdle

SpecLoader == InitLoader /\ [][LdrNext]_vars

InitCB == CBInit /\ CVIdle /\ FitIdle /\ LdrIdle /\ HPIdle /\ LUIdle

SpecCB == InitCB /\ [][CBNext]_vars

InitHP == HPInit /\ CVIdle /\ FitIdle /\ LdrIdle /\ CBIdle /\ LUIdle

SpecHP == InitHP /\ [][HPNext]_vars

InitUse == LUInit /\ CVIdle /\ FitIdle /\ LdrIdle /\ CBIdle /\ HPIdle

SpecUse == InitUse /\ [][LUNext]_vars

\* The caller of get_random keeps iterating, the code between two yields
\* runs on, and np.random.randint does not avoid an image of the loader for
\* ever: a step of LUPick that changes the state takes an image that is
\* not refused as a repeat.
SpecUseFair ==
    /\ InitUse
    /\ [][LUNext]_vars
    /\ WF_vars(LUPick)
    /\ WF_vars(LUChecked)
    /\ WF_vars(LUResume)
    /\ WF_vars(LUFinish)

(***************************************************************************)
(* Claims about cv_split.                                                  *)
(***************************************************************************)
ImagesOf(entries) == {e.image : e \in entries}

\* C2: when the run goes on to split, the sizes computed from the number of
\* images add up to N_total and leave a training sample
\* (N_val + N_test < N_total); when N_val + N_test >= N_total the run ends
\* with the ValueError and no image is linked, copied or listed.
C2_SizesPartition ==
    LET n_total == Len(cv_images)
        n_test == NTest(n_total, cv_args)
        n_val == NVal(n_total, cv_args)
    IN /\ cv_pc \in {"shuffle", "loop", "done"} =>
             /\ cv_sizes.N_total = n_total
             /\ cv_sizes.N_test = n_test
             /\ cv_sizes.N_val = n_val
             /\ cv_sizes.N_train + cv_sizes.N_val + cv_sizes.N_test = cv_sizes.N_total
             /\ cv_sizes.N_val + cv_sizes.N_test < cv_sizes.N_total
       /\ n_val + n_test >= n_total =>
             /\ cv_pc \in {"start", "raised"}
             /\ cv_pc = "raised" => cv_err \in {"ValueError: No training samples left",
                                                "ValueError: Must specify --test_fraction"}
             /\ cv_folds = <<>>
             /\ cv_partial = NoFold

\* C2 witness: a run that went on to split with a validation and a test part
C2_Witness ==
    /\ cv_pc = "done"
    /\ cv_sizes.N_val > 0 /\ cv_sizes.N_test > 0 /\ cv_sizes.N_train > 0

\* C3: in every fold written, train, val and test are pairwise disjoint and
\* together hold every input image.
C3_FoldsPartition ==
    \A k \in 1..Len(cv_folds) :
       LET test == ImagesOf(cv_folds[k].test)
           val == ImagesOf(cv_folds[k].val)
           train == ImagesOf(cv_folds[k].train)
       IN /\ test \cap val = {} /\ test \cap train = {} /\ val \cap train = {}
          /\ test \cup val \cup train = Range(cv_images)

\* C3 witness: two folds written, the second with all three parts non-empty
C3_Witness ==
    /\ Len(cv_folds) >= 2
    /\ cv_folds[2].test # {} /\ cv_folds[2].val # {} /\ cv_folds[2].train # {}

\* C4 (as claimed): every fold written holds exactly the announced numbers
\* of training, validation and test images.  Stated for fractions between
\* 0 and 1, the sensible command lines.
C4_AnnouncedCounts ==
    (cv_args.val_frac[1] >= 0 /\ cv_args.test_frac[1] >= 0) =>
        \A k \in 1..Len(cv_folds) :
           /\ Cardinality(cv_folds[k].test) = cv_sizes.N_test
           /\ Cardinality(cv_folds[k].val) = cv_sizes.N_val
           /\ Cardinality(cv_folds[k].train) = cv_sizes.N_train


\* the entries add_images made for a fold, in the order of its three calls
PartsOf(fold) == <<fold.test, fold.val, fold.train>>

\* C16: add_images raises OSError at the first image whose label file does
\* not exist and makes no entry for it or for any image after it (in that
\* call or in the calls that would have followed); every entry made is an
\* image entry and a label entry of the same file name, for an image whose
\* label exists.
C16_LabelMatching ==
    /\ \A k \in 1..Len(cv_folds) : \A j \in 1..3 : \A e \in PartsOf(cv_folds[k])[j] :
          e.label = e.image /\ e.image \in cv_labels
    /\ \A j \in 1..3 : \A e \in PartsOf(cv_partial)[j] :
          e.label = e.image /\ e.image \in cv_labels
    /\ cv_pc = "done" => Range(cv_images) \subseteq cv_labels
    /\ (cv_pc = "raised" /\ cv_err = "OSError: No label file found") <=>
          cv_partial # NoFold
    /\ cv_partial # NoFold =>
          LET given == cv_partial.given
          IN \E j \in 1..Len(given) : \E k \in 1..Len(given[j]) :
                /\ given[j][k] \notin cv_labels
                /\ \A m \in 1..(k - 1) : given[j][m] \in cv_labels
                /\ ImagesOf(PartsOf(cv_partial)[j]) = {given[j][m] : m \in 1..(k - 1)}
                /\ \A i \in 1..(j - 1) :
                      ImagesOf(PartsOf(cv_partial)[i]) = Range(given[i])
                /\ \A i \in (j + 1)..3 : PartsOf(cv_partial)[i] = {}

\* C16 witness: the run ended with OSError in the call for the training
\* images, after an entry was made in that call
C16_Witness ==
    /\ cv_pc = "raised"
    /\ cv_err = "OSError: No label file found"
    /\ Len(cv_partial.given) = 3
    /\ cv_partial.train # {}
    /\ Cardinality(cv_partial.train) < Len(cv_partial.given[3])

\* C19: whenever the size check passes, every fold written has at least one
\* training image.  Stated for fractions between 0 and 1, the sensible
\* command lines.
C19_TrainingInEveryFold ==
    (cv_args.val_frac[1] >= 0 /\ cv_args.test_frac[1] >= 0) =>
        \A k \in 1..Len(cv_folds) : cv_folds[k].train # {}

(***************************************************************************)
(* Claims about Trainer.fit.                                               *)
(***************************************************************************)

\* C5: every attempt is started with a batch size of at least 1, set on the
\* train sequence (and on val when there is one); an attempt is followed by
\* another one only after a ResourceExhaustedError, and then with the batch
\* size lowered by exactly 2; an attempt that completed is the last one.
C5_OOMRecovery ==
    /\ \A k \in 1..Len(fit_attempts) :
          /\ fit_attempts[k].batch_size >= 1
          /\ fit_attempts[k].train_bs = fit_attempts[k].batch_size
          /\ fit_has_val => fit_attempts[k].val_bs = fit_attempts[k].batch_size
          /\ k < Len(fit_attempts) =>
                /\ fit_attempts[k].outcome = "oom"
                /\ fit_attempts[k + 1].batch_size = fit_attempts[k].batch_size - 2
    /\ (fit_attempts # <<>> /\ fit_attempts[Len(fit_attempts)].outcome = "oom") =>
          /\ fit_batch_size = fit_attempts[Len(fit_attempts)].batch_size - 2
          /\ fit_hparams_bs = fit_batch_size
    /\ (fit_attempts # <<>> /\ fit_attempts[Len(fit_attempts)].outcome = "ok") =>
          /\ ~fit_fitting
          /\ fit_batch_size = fit_attempts[Len(fit_attempts)].batch_size

\* C5 witness: two out-of-memory errors, then an attempt that completed,
\* and fit has returned
C5_Witness ==
    /\ fit_pc = "stopped"
    /\ Len(fit_attempts) = 3
    /\ fit_attempts[3].outcome = "ok"
    /\ fit_has_val

\* the attempts in which fit_generator was called
Fitted == {k \in 1..Len(fit_attempts) : fit_attempts[k].callbacks # NoneVal}

\* the callback made for an entry, leaving aside the wrapper and what was
\* set on it later
MadeFrom(cb, entry) ==
    IF entry.type = "dict"
    THEN Unwrapped(cb).cls = entry.class_name /\ Unwrapped(cb).kwargs = entry.kwargs
    ELSE cb.type = "object" /\ cb.cls = entry.cls

\* C17: in every attempt with validation data, the list handed to
\* fit_generator starts with the Validation callback, followed by the
\* caller's callbacks in their order, then SavePredictionImages (unless
\* no_im), FGBatchBalancer and DividerLine; on the first attempt and on
\* every retry alike.
C17_ValidationFirst ==
    fit_has_val =>
       /\ \A k \in 1..Len(fit_attempts) :
             fit_attempts[k].batch_size >= 1 => k \in Fitted
       /\ \A k \in Fitted :
             LET handed == fit_attempts[k].callbacks.v
                 n == Len(fit_callbacks)
                 extra == IF fit_no_im THEN 0 ELSE 1
             IN /\ Len(handed) = 1 + n + extra + 2
                /\ handed[1] = Validation
                /\ \A j \in 1..n : MadeFrom(handed[j + 1], fit_callbacks[j])
                /\ ~fit_no_im => handed[n + 2] = SavePredictionImages
                /\ handed[n + extra + 2] = FGBatchBalancer
                /\ handed[n + extra + 3] = DividerLine

\* C17 witness: a retry after an out-of-memory error, with validation data
\* and two callbacks of the caller
C17_Witness ==
    /\ fit_has_val
    /\ Len(fit_callbacks) = 2
    /\ Len(fit_attempts) = 2
    /\ fit_attempts[1].outcome = "oom"
    /\ fit_attempts[2].callbacks # NoneVal

\* C18: when the callbacks hold a ModelCheckPointClean, the
\* ModelCheckPointClean object handed to fit_generator has org_model set,
\* also when its descriptor gives start_from.  Stated for callbacks with one
\* ModelCheckPointClean.
C18_OrgModelSet ==
    \A k \in Fitted :
       LET handed == fit_attempts[k].callbacks.v
           clean == {j \in 1..Len(handed) :
                       Unwrapped(handed[j]).cls = "ModelCheckPointClean"}
       IN Cardinality(clean) = 1 =>
             \A j \in clean : "org_model" \in DOMAIN Unwrapped(handed[j])

(***************************************************************************)
(* Claims about ImagePairLoader.                                           *)
(***************************************************************************)

\* the path with its last directory component, which must be img_subdir,
\* replaced by label_subdir: the same file name in the label sub-directory
SiblingLabelPath(path, img_subdir, label_subdir) ==
    LET parts == Split(path, "/")
        n == Len(parts)
    IN IF n >= 2 /\ parts[n - 1] = img_subdir
       THEN Some(Join([parts EXCEPT ![n - 1] = label_subdir], "/"))
       ELSE NoneVal

\* C6 (as claimed): a loader built in non-predict mode has one label path
\* per image path, in the same order, each the image path with the image
\* sub-directory component replaced by the label sub-directory (and so not
\* the image path itself), and ImagePair i is made of image path i and
\* label path i; in predict mode no label path is derived.
C6_LabelPathsMatch ==
    (ldr_pc = "ready" /\ ~ldr_cfg.single_file_mode) =>
        IF ldr_cfg.predict_mode
        THEN /\ ldr_label_paths = NoneVal
             /\ \A k \in 1..Len(ldr_images) : ldr_images[k].labels_path = NoneVal
        ELSE /\ Len(ldr_label_paths.v) = Len(ldr_image_paths.v)
             /\ Len(ldr_images) = Len(ldr_image_paths.v)
             /\ \A k \in 1..Len(ldr_image_paths.v) :
                   /\ Some(ldr_label_paths.v[k]) =
                         SiblingLabelPath(ldr_image_paths.v[k], ldr_cfg.img_subdir,
                                          ldr_cfg.label_subdir)
                   /\ ldr_label_paths.v[k] # ldr_image_paths.v[k]
                   /\ ldr_images[k] = ImagePair(ldr_image_paths.v[k],
                                                Some(ldr_label_paths.v[k]))

(***************************************************************************)
(* Claims about init_callback_objects.                                     *)
(***************************************************************************)

\* the callback made for an entry, without the DelayedCallback around it

UnknownName(callback) ==
    /\ callback.type = "dict"
    /\ callback.class_name \notin TfCallbacks \cup CustomCallbacks

\* C10: a descriptor's class is taken from tf.keras when tf.keras has the
\* name (also when the custom module has it too), from the custom module
\* when only that has it, and a name of neither module ends the call with
\* ValueError and without a result.
C10_ResolutionOrder ==
    /\ \A k \in 1..Len(cb_objs) :
          cb_input[k].type = "dict" =>
             LET name == cb_input[k].class_name
                 made == Unwrapped(cb_objs[k])
             IN /\ made.cls = name
                /\ name \in TfCallbacks => made.module = "tf"
                /\ (name \notin TfCallbacks /\ name \in CustomCallbacks) =>
                      made.module = "custom"
                /\ ~UnknownName(cb_input[k])
    /\ cb_pc = "raised" =>
          /\ cb_err = "ValueError: No callback named"
          /\ UnknownName(cb_input[cb_i + 1])
    /\ cb_pc = "returned" =>
          /\ Len(cb_objs) = Len(cb_input)
          /\ \A k \in 1..Len(cb_input) : ~UnknownName(cb_input[k])
    /\ (\E k \in 1..Len(cb_input) : UnknownName(cb_input[k])) => cb_pc # "returned"

\* C10 witness: a call that returned callbacks for a name of both modules
\* and for a name of the custom module only
C10_Witness ==
    /\ cb_pc = "returned"
    /\ Len(cb_input) = 2
    /\ cb_input[1].type = "dict" /\ cb_input[1].class_name = "Callback"
    /\ cb_input[2].type = "dict" /\ cb_input[2].class_name = "ModelCheckPointClean"

\* C11: a descriptor is wrapped in a DelayedCallback carrying its
\* start_from exactly when it gives a start_from that is not 0; a
\* descriptor without start_from (or with 0) and every callback object
\* given is in the result unwrapped.
C11_DelayedExactly ==
    \A k \in 1..Len(cb_objs) :
       LET callback == cb_input[k]
           cb == cb_objs[k]
           delayed == /\ callback.type = "dict"
                      /\ callback.start_from # NoneVal
                      /\ callback.start_from.v # 0
       IN IF delayed
          THEN /\ cb.cls = "DelayedCallback"
               /\ cb.start_from = callback.start_from.v
               /\ cb.callback.cls = callback.class_name
          ELSE /\ "callback" \notin DOMAIN cb
               /\ cb.cls = ClsNameOf(callback)

\* C11 witness: a call returned for a descriptor with start_from 3 and a
\* descriptor with start_from 0
C11_Witness ==
    /\ cb_pc = "returned"
    /\ Len(cb_input) = 2
    /\ cb_input[1].type = "dict" /\ cb_input[1].start_from = Some(3)
    /\ cb_input[2].type = "dict" /\ cb_input[2].start_from = Some(0)

\* C12: the call returns one callback per entry, in the order of the
\* entries: entry k of the result is made from entry k of the input, and an
\* entry that is a callback object is in the result as that object.
C12_OnePerEntry ==
    /\ Len(cb_objs) <= Len(cb_input)
    /\ cb_pc = "returned" => Len(cb_objs) = Len(cb_input)
    /\ \A k \in 1..Len(cb_objs) :
          IF cb_input[k].type = "dict"
          THEN /\ Unwrapped(cb_objs[k]).cls = cb_input[k].class_name
               /\ \A a \in DOMAIN cb_input[k].kwargs :
                     Unwrapped(cb_objs[k]).kwargs[a] = cb_input[k].kwargs[a]
          ELSE cb_objs[k] = cb_input[k]

\* C12 witness: a call returned for a callback object followed by a
\* descriptor
C12_Witness ==
    /\ cb_pc = "returned"
    /\ Len(cb_input) = 2
    /\ cb_input[1].type = "object" /\ cb_input[1].cls = "Validation"
    /\ cb_input[2].type = "dict" /\ cb_input[2].class_name = "EarlyStopping"

(***************************************************************************)
(* Claims about a loader in use.                                           *)
(***************************************************************************)
\* C13: set_queue(max_load) gives the loader an ImageQueue of capacity
\* max_load exactly when max_load is an integer below the number of images;
\* otherwise the queue is left as it was, False on a loader that never got
\* one, and then get_random takes its images from the list: nothing is
\* checked out.
C13_QueueExactly ==
    /\ lu_sets = 0 => ~lu_queue.exists
    /\ lu_setq.op = "set_queue" =>
          IF lu_setq.max_load.kind = "int" /\ lu_setq.max_load.i < lu_n
          THEN lu_queue.exists /\ lu_queue.max_load = lu_setq.max_load.i
          ELSE /\ lu_queue.exists = lu_setq.before.exists
               /\ lu_sets = 1 => ~lu_queue.exists
               /\ lu_queue.exists => lu_queue.max_load = lu_setq.before.max_load
    /\ ~lu_queue.exists => lu_held = 0 /\ lu_pc # "checked"
    /\ (~lu_queue.exists /\ lu_pc \in {"loop", "yielded", "done"}) =>
          \A k \in 1..Len(lu_returned) : lu_returned[k] \in 1..lu_n

\* C13 witness: set_queue(1) on a loader of two images made a queue of
\* capacity 1
C13_Witness ==
    /\ lu_n = 2
    /\ lu_sets = 1
    /\ lu_setq.op = "set_queue"
    /\ lu_setq.max_load = VInt(1)
    /\ lu_queue.exists
    /\ lu_queue.max_load = 1

\* get_random has finished, having yielded the images of `returned`
Finished == lu_pc = "done"

Distinct(seq) == \A j, k \in 1..Len(seq) : j # k => seq[j] # seq[k]

\* what get_random has yielded at any moment: at most N images, images of
\* the loader, distinct when unique; N of them when it has finished
YieldedSoFar ==
    lu_pc \in {"loop", "checked", "yielded", "done"} =>
       /\ Len(lu_returned) <= lu_N
       /\ \A k \in 1..Len(lu_returned) : lu_returned[k] \in 1..lu_n
       /\ lu_unique => Distinct(lu_returned)
       /\ Finished => Len(lu_returned) = lu_N

FirstCall(events, call) ==
    IF \E k \in 1..Len(events) : events[k].call = call
    THEN CHOOSE k \in 1..Len(events) :
            /\ events[k].call = call
            /\ \A j \in 1..(k - 1) : events[j].call # call
    ELSE 0

CallsOf(events, call) == {k \in 1..Len(events) : events[k].call = call}

\* C15: with a queue get_sequencer prepares no image itself: it sets the
\* queue's entry function and its exit function "unload", then starts the
\* queue, then waits in await_full, and makes the sequence object after
\* that; without a queue it prepares every image before it makes the
\* sequence object and never starts a queue.
C15_SequencerOrder ==
    LET made == FirstCall(lu_events, "sequence")
        prepared == {lu_events[k].image : k \in CallsOf(lu_events, "prepare")}
        entry == FirstCall(lu_events, "set_entry_func")
        exit == FirstCall(lu_events, "set_exit_func")
        start == FirstCall(lu_events, "start")
        await == FirstCall(lu_events, "await_full")
        queued == lu_events # <<>> /\ lu_events[1].call # "prepare"
                  /\ lu_events[1].call # "sequence"
    IN /\ lu_style # "" /\ Lower(lu_style) \notin ValidStyles =>
             lu_events = <<>> /\ lu_pc = "raised"
       /\ Cardinality(CallsOf(lu_events, "sequence")) <= 1
       /\ made # 0 => made = Len(lu_events)
       /\ queued =>
             /\ prepared = {}
             /\ start # 0 => entry # 0 /\ entry < start /\ exit # 0 /\ exit < start
             /\ exit # 0 => lu_events[exit].func = "unload"
             /\ await # 0 => start # 0 /\ start < await
             /\ made # 0 => await # 0 /\ await < made /\ lu_events[made].use_queue
             /\ Cardinality(CallsOf(lu_events, "start")) <= 1
       /\ ~queued =>
             /\ start = 0 /\ await = 0 /\ entry = 0 /\ exit = 0
             /\ made # 0 => prepared = 1..lu_n /\ ~lu_events[made].use_queue
       /\ (lu_pc = "seq" /\ lu_events # <<>>) => (queued <=> lu_queue.exists)
       /\ (lu_pc = "seq" /\ lu_queue.exists) => prepared = {}

\* C15 witness: get_sequencer returned a sequence for a loader with a queue
C15_Witness ==
    /\ lu_pc = "ready"
    /\ lu_queue.exists
    /\ lu_queue.started
    /\ lu_style = "patches_3d"
    /\ Len(lu_events) = 5
    /\ lu_events[5].call = "sequence"

\* the images the generator of get_random holds checked out of the queue
HeldOut == IF lu_queue.exists THEN lu_queue.checked_out ELSE <<>>

\* at every moment of a get_random call on a queue: nothing is held while
\* the loop is between two images or has finished, the image just taken is
\* the only one held while it is tested, and the image yielded last is the
\* only one held while the consumer works on it
OneHeld ==
    lu_queue.exists =>
       /\ Len(HeldOut) <= 1
       /\ lu_pc \in {"ready", "seq", "loop", "done", "raised"} => HeldOut = <<>>
       /\ lu_pc = "checked" => HeldOut = <<lu_held>>
       /\ lu_pc = "yielded" =>
             /\ lu_returned # <<>>
             /\ HeldOut = <<lu_returned[Len(lu_returned)]>>

\* a checkout is made with nothing held, and an image refused as a repeat
\* is given back without having been yielded
ReleasedInTime ==
    /\ (lu_pc' = "checked" /\ lu_pc # "checked") =>
          HeldOut = <<>> /\ HeldOut' = <<lu_held'>>
    /\ (lu_pc = "checked" /\ IsRepeat(lu_held, lu_returned, lu_unique)) =>
          /\ HeldOut' = <<>>
          /\ lu_returned' = lu_returned
          /\ lu_pc' = "loop"
    /\ (lu_pc = "checked" /\ ~IsRepeat(lu_held, lu_returned, lu_unique)) =>
          /\ HeldOut' = HeldOut
          /\ lu_returned' = Append(lu_returned, lu_held)

\* C21: with a queue, one get_random call holds at most one checked-out
\* image at any time: each image comes from a checkout that stays held
\* while the consumer works on the yielded image and is released before the
\* next checkout; an image rejected as a duplicate under unique=True is
\* released without being yielded; nothing is held once the generator has
\* finished.
C21_OneCheckoutHeld ==
    /\ []OneHeld
    /\ [][ReleasedInTime]_vars

\* C21 witness: get_random(2, unique=True) on a started queue finished: two
\* images were checked out, yielded and given back
C21_Witness ==
    /\ Finished
    /\ lu_queue.exists
    /\ lu_queue.started
    /\ lu_unique
    /\ lu_N = 2
    /\ Len(lu_returned) = 2
    /\ HeldOut = <<>>

(***************************************************************************)
(* Claims about YAMLHParams.                                               *)
(***************************************************************************)
\* string_rep parses to the groups and values of the dict, the __CB groups
\* aside; a text without any entry stands for the empty dict
RepMatchesDict ==
    LET parsed == YamlLoad(hp_string_rep)
    IN /\ parsed.ok
       /\ parsed.doc.kind \in {"none", "map"}
       /\ hp_dict = WithoutCB(IF parsed.doc.kind = "map" THEN parsed.doc.m ELSE <<>>)

\* C1: after a mutating call (add_group, delete_group, set_value) string_rep
\* and the dict are consistent: parsing string_rep gives the groups and
\* values of the dict.  Stated for the first call on a loaded object, when
\* the call returned and was asked to keep string_rep up to date.
C1_RepMatchesDict ==
    (/\ hp_pc = "loaded"
     /\ hp_calls <= 1
     /\ hp_last.raised = "none"
     /\ hp_last.op = "set_value" => hp_last.update_string_rep)
    => RepMatchesDict

NoCR(s) == \A k \in 1..Len(s) : s[k] # CR

\* C7: save_current right after loading writes the text that was read,
\* character for character: the text of the file as open(path, "r") gives
\* it, which is the text of the file itself when its lines end with "\n".
C7_SaveRoundTrip ==
    (hp_written # NoneVal /\ hp_written.v.calls = 0) =>
       /\ hp_written.v.text = ReadText(hp_file)
       /\ NoCR(hp_file) => hp_written.v.text = hp_file

\* C7 witness: a file with a comment, a blank line and a __CB group was
\* loaded and saved with no call in between
C7_Witness ==
    /\ hp_file = FileCB
    /\ hp_written # NoneVal
    /\ hp_written.v.calls = 0
    /\ hp_written.v.path = "yaml_path"

\* the name of the group the line k of a text belongs to: the name on the
\* last line before it that starts at column 0
HeaderOf(lines, k) ==
    LET hs == {j \in 1..(k - 1) : lines[j] # <<>> /\ Head(lines[j]) \notin {" ", "#"}}
    IN IF hs = {} THEN <<>>
       ELSE BeforeColon(lines[CHOOSE j \in hs : \A i \in hs : i <= j])

\* line k is the line of the field `name` of the group `subdir`
IsField(lines, k, subdir, name) ==
    /\ lines[k] # <<>>
    /\ Head(lines[k]) = " "
    /\ BeforeColon(LStrip(lines[k], {" "})) = name
    /\ HeaderOf(lines, k) = subdir

\* a field line up to its value: indent, name, colon and spaces
KeyPart(line, name) ==
    LET indent == Len(line) - Len(LStrip(line, {" "}))
        after == SubSeq(line, indent + Len(name) + 2, Len(line))
    IN SubSeq(line, 1, Len(line) - Len(LStrip(after, {" "})))

\* C8: a successful set_value(subdir, name, value) with update_string_rep
\* changes in string_rep only the value text on the line of the field `name`
\* of the group `subdir`, or adds one `name: value` line to that group when
\* the field did not exist; every other line is unchanged.  Stated for the
\* first call on a loaded object.
C8_LayoutPreserved ==
    (/\ hp_calls = 1
     /\ hp_last.op = "set_value"
     /\ hp_last.raised = "none"
     /\ hp_last.ret = "True"
     /\ hp_last.update_string_rep)
    => LET pre == Split(hp_last.pre_rep, NL)
           post == Split(hp_string_rep, NL)
           subdir == hp_last.subdir
           name == hp_last.name
           text == StrOf(hp_last.value)
       IN IF name \in DOMAIN hp_last.pre_dict[subdir].m
          THEN /\ Len(post) = Len(pre)
               /\ \A k \in 1..Len(pre) :
                     post[k] # pre[k] =>
                        /\ IsField(pre, k, subdir, name)
                        /\ post[k] = KeyPart(pre[k], name) \o text
          ELSE /\ Len(post) = Len(pre) + 1
               /\ \E j \in 1..Len(post) :
                     /\ \A k \in 1..(j - 1) : post[k] = pre[k]
                     /\ \A k \in (j + 1)..Len(post) : post[k] = pre[k - 1]
                     /\ IsField(post, j, subdir, name)
                     /\ LStrip(post[j], {" "}) = name \o <<":", " ">> \o text

\* C9: after add_group(yaml_string) for a group G, the dict entry of G is
\* the option mapping of the group: the value it has when the same text is
\* the file the object is built from.
C9_AddGroupEntry ==
    (hp_last.op = "add_group" /\ hp_last.raised = "none") =>
       LET G == GroupNameOf(hp_last.yaml_string)
           built == YamlLoad(ReadLines(hp_last.yaml_string))
       IN /\ built.ok
          /\ built.doc.kind = "map"
          /\ G \in DOMAIN built.doc.m
          /\ G \in DOMAIN hp_dict
          /\ hp_dict[G] = built.doc.m[G]


\* C20: set_value(subdir, name, value, overwrite) on a group of the dict
\* writes the value and returns True exactly when the field is absent, or
\* its value is None or False, or overwrite is True; otherwise (the field is
\* set, be it to 0) it returns False and leaves the dict and string_rep as
\* they were.  Stated for the first call on a loaded object.
C20_SetValueReturn ==
    (/\ hp_calls = 1
     /\ hp_last.op = "set_value"
     /\ hp_last.subdir \in DOMAIN hp_last.pre_dict
     /\ hp_last.pre_dict[hp_last.subdir].kind = "map")
    => LET fields == hp_last.pre_dict[hp_last.subdir].m
           name == hp_last.name
           writes == \/ name \notin DOMAIN fields
                     \/ fields[name] \in {VNone, VBool(FALSE)}
                     \/ hp_last.overwrite
       IN IF writes
          THEN /\ hp_last.raised = "none"
               /\ hp_last.ret = "True"
               /\ hp_dict[hp_last.subdir].m[name] = hp_last.value
          ELSE /\ hp_last.raised = "none"
               /\ hp_last.ret = "False"
               /\ hp_dict = hp_last.pre_dict
               /\ hp_string_rep = hp_last.pre_rep

====
